---- MODULE Spec2Model ----
(***************************************************************************)
(* MedSafe: the drug-interaction service (DrugInteractionService) and the  *)
(* risk stages of the clinical rules agent (ClinicalRulesAgent).           *)
(*                                                                         *)
(* Python strings are TLA+ strings: Len, SubSeq and \o act on them         *)
(* character by character, so lower(), strip() and the `in` substring      *)
(* test are modelled on the characters themselves.                         *)
(***************************************************************************)
EXTENDS Integers, Sequences, FiniteSets, TLC

VARIABLES
    db_file,              \* the CSV dataset at db_path: whether it exists, and its rows
    interactions_cache,   \* DrugInteractionService._interactions_cache
    call,                 \* the operation called and its arguments
    ret,                  \* the value it returned
    pc                    \* "call" while the operation is pending, then "done"

vars == <<db_file, interactions_cache, call, ret, pc>>

(***************************************************************************)
(* Bounds                                                                  *)
(***************************************************************************)
MaxFindings == 2      \* findings per list handed to calculate_overall_risk
MaxRiskCount == 4     \* largest risk-factor count fed to the escalation
MaxFragments == 2     \* text fragments making up an interaction description
MaxConditions == 2    \* patient conditions per contraindication analysis
MaxAllergies == 2     \* patient allergies per contraindication analysis
MaxRows == 2          \* rows of the dataset file
MaxOthers == 2        \* entries of other_drugs per lookup

(***************************************************************************)
(* str methods                                                             *)
(***************************************************************************)
UpperChars == "ABCDEFGHIJKLMNOPQRSTUVWXYZÁÂÃÀÇÉÊÍÓÔÕÚ"
LowerChars == "abcdefghijklmnopqrstuvwxyzáâãàçéêíóôõú"
Whitespace == {" ", "\t", "\n", "\r", "\f"}

CharAt(s, i) == SubSeq(s, i, i)

\* upper-case character -> its lower-case form
LowerMap ==
    [c \in {CharAt(UpperChars, i) : i \in 1..Len(UpperChars)} |->
        CharAt(LowerChars, CHOOSE i \in 1..Len(UpperChars) : CharAt(UpperChars, i) = c)]

UpperMap ==
    [c \in {CharAt(LowerChars, i) : i \in 1..Len(LowerChars)} |->
        CharAt(UpperChars, CHOOSE i \in 1..Len(LowerChars) : CharAt(LowerChars, i) = c)]

LowerChar(c) == IF c \in DOMAIN LowerMap THEN LowerMap[c] ELSE c

RECURSIVE LowerFrom(_, _)
LowerFrom(s, i) ==
    IF i > Len(s) THEN "" ELSE LowerChar(CharAt(s, i)) \o LowerFrom(s, i + 1)

\* str.lower()
Lower(s) == LowerFrom(s, 1)

\* str.strip(): drops leading and trailing whitespace
RECURSIVE LStrip(_)
LStrip(s) ==
    IF s # "" /\ CharAt(s, 1) \in Whitespace THEN LStrip(SubSeq(s, 2, Len(s))) ELSE s

RECURSIVE RStrip(_)
RStrip(s) ==
    IF s # "" /\ CharAt(s, Len(s)) \in Whitespace THEN RStrip(SubSeq(s, 1, Len(s) - 1)) ELSE s

Strip(s) == RStrip(LStrip(s))

UpperChar(c) == IF c \in DOMAIN UpperMap THEN UpperMap[c] ELSE c

\* str.capitalize(): first character upper-cased, the rest lower-cased
Capitalize(s) ==
    IF s = "" THEN "" ELSE UpperChar(CharAt(s, 1)) \o Lower(SubSeq(s, 2, Len(s)))

\* the `sub in s` substring test
In(sub, s) ==
    \E i \in 1..(Len(s) - Len(sub) + 1) : SubSeq(s, i, i + Len(sub) - 1) = sub

\* any(keyword in text for keyword in keywords)
AnyIn(keywords, text) == \E k \in DOMAIN keywords : In(keywords[k], text)

(***************************************************************************)
(* DrugInteractionService                                                  *)
(***************************************************************************)
DRUG_SYNONYMS_chained ==
    ("tylenol" :> "paracetamol") @@
    ("paracetamol" :> "acetaminophen") @@
    ("aspirina" :> "acetylsalicylic acid") @@
    ("diazepam" :> "diazepam")

DRUG_SYNONYMS ==
    ("aspirina" :> "acetylsalicylic acid") @@
    ("aspirin" :> "acetylsalicylic acid") @@
    ("aas" :> "acetylsalicylic acid") @@
    ("ácido acetilsalicílico" :> "acetylsalicylic acid") @@
    ("paracetamol" :> "acetaminophen") @@
    ("tylenol" :> "acetaminophen") @@
    ("parac humanoid" :> "acetaminophen") @@
    ("metformina" :> "metformin") @@
    ("glifage" :> "metformin") @@
    ("losartana" :> "losartan") @@
    ("losartan potássico" :> "losartan") @@
    ("cozaar" :> "losartan") @@
    ("ibuprofeno" :> "ibuprofen") @@
    ("advil" :> "ibuprofen") @@
    ("motrin" :> "ibuprofen") @@
    ("amoxicilina" :> "amoxicillin") @@
    ("dipirona" :> "metamizole") @@
    ("novalgina" :> "metamizole") @@
    ("omeprazol" :> "omeprazole") @@
    ("sertralina" :> "sertraline") @@
    ("zoloft" :> "sertraline") @@
    ("fluoxetina" :> "fluoxetine") @@
    ("prozac" :> "fluoxetine") @@
    ("atorvastatina" :> "atorvastatin") @@
    ("lipitor" :> "atorvastatin") @@
    ("simvastatina" :> "simvastatin") @@
    ("zocor" :> "simvastatin") @@
    ("varfarina" :> "warfarin") @@
    ("coumadin" :> "warfarin") @@
    ("marevan" :> "warfarin") @@
    ("diazepam" :> "diazepam") @@
    ("valium" :> "diazepam") @@
    ("clonazepam" :> "clonazepam") @@
    ("rivotril" :> "clonazepam")

_normalize_drug_name_no_synonyms(name) == Strip(Lower(name))

_normalize_drug_name_partial_match(name) ==
    LET normalized == Strip(Lower(name))
        matching == {k \in DOMAIN DRUG_SYNONYMS : In(k, normalized)}
    IN  IF matching # {}
        THEN DRUG_SYNONYMS[CHOOSE k \in matching : \A m \in matching : Len(m) <= Len(k)]
        ELSE normalized

_normalize_drug_name(name) ==
    LET normalized == Strip(Lower(name))
    IN  IF normalized \in DOMAIN DRUG_SYNONYMS
        THEN DRUG_SYNONYMS[normalized]
        ELSE normalized

critical_keywords ==
    << "contraindicated", "contraindication", "fatal", "life-threatening",
       "severe", "serious", "major", "cardiotoxic", "hepatotoxic",
       "nephrotoxic", "neurotoxic", "may cause death" >>

high_keywords ==
    << "significant", "increase the risk", "adverse effects",
       "toxicity", "dangerous", "harmful", "may increase",
       "serum concentration", "metabolism" >>

medium_keywords ==
    << "moderate", "caution", "monitor", "may decrease",
       "effectiveness", "therapeutic effect", "bioavailability" >>

_classify_severity_medium_first(description) ==
    LET description_lower == Lower(description)
    IN  IF AnyIn(medium_keywords, description_lower) THEN "medium"
        ELSE IF AnyIn(critical_keywords, description_lower) THEN "critical"
        ELSE IF AnyIn(high_keywords, description_lower) THEN "high"
        ELSE "low"

_classify_severity(description) ==
    LET description_lower == Lower(description)
    IN  IF AnyIn(critical_keywords, description_lower) THEN "critical"
        ELSE IF AnyIn(high_keywords, description_lower) THEN "high"
        ELSE IF AnyIn(medium_keywords, description_lower) THEN "medium"
        ELSE "low"

_classify_category_coagulation_first(description) ==
    LET d == Lower(description)
    IN  IF In("bleeding", d) \/ In("anticoagulant", d) THEN "Coagulação"
        ELSE IF In("cardiotoxic", d) \/ In("cardiac", d) THEN "Cardiovascular"
        ELSE IF In("hepatotoxic", d) \/ In("liver", d) THEN "Hepática"
        ELSE IF In("nephrotoxic", d) \/ In("renal", d) \/ In("kidney", d) THEN "Renal"
        ELSE IF In("neurotoxic", d) \/ In("cns", d) \/ In("sedation", d) THEN "Neurológica"
        ELSE IF In("photosensitiz", d) THEN "Fotossensibilidade"
        ELSE IF In("metabolism", d) \/ In("cyp", d) THEN "Farmacocinética"
        ELSE "Farmacológica"

_classify_category(description) ==
    LET d == Lower(description)
    IN  IF In("cardiotoxic", d) \/ In("cardiac", d) THEN "Cardiovascular"
        ELSE IF In("hepatotoxic", d) \/ In("liver", d) THEN "Hepática"
        ELSE IF In("nephrotoxic", d) \/ In("renal", d) \/ In("kidney", d) THEN "Renal"
        ELSE IF In("neurotoxic", d) \/ In("cns", d) \/ In("sedation", d) THEN "Neurológica"
        ELSE IF In("photosensitiz", d) THEN "Fotossensibilidade"
        ELSE IF In("metabolism", d) \/ In("cyp", d) THEN "Farmacocinética"
        ELSE IF In("bleeding", d) \/ In("anticoagulant", d) THEN "Coagulação"
        ELSE "Farmacológica"

\* a dataset file that does not exist
NoFile == [exists |-> FALSE, rows |-> <<>>]

\* _interactions_cache = None, and a cache holding the dict d
NoneCache == [none |-> TRUE, dict |-> <<>>]
DictCache(d) == [none |-> FALSE, dict |-> d]

\* csv.DictReader leaves the missing fields of a short row None, and lower()
\* of None raises
RowRaises(row) == Len(row) < 3

interaction_data(row) ==
    [drug1 |-> row[1],
     drug2 |-> row[2],
     description |-> row[3],
     severity |-> _classify_severity(row[3]),
     category |-> _classify_category(row[3])]

RECURSIVE RowLoop_first_row_wins(_, _, _)
RowLoop_first_row_wins(rows, i, dict) ==
    IF i > Len(rows) THEN [raised |-> FALSE, dict |-> dict]
    ELSE IF RowRaises(rows[i]) THEN [raised |-> TRUE, dict |-> dict]
    ELSE LET drug1 == _normalize_drug_name(rows[i][1])
             drug2 == _normalize_drug_name(rows[i][2])
             key1 == drug1 \o "|" \o drug2
             key2 == drug2 \o "|" \o drug1
             data == interaction_data(rows[i])
         IN  RowLoop_first_row_wins(rows, i + 1, dict @@ (key1 :> data) @@ (key2 :> data))

\* for row in reader, from row i on: the dict built so far, or the exception
RECURSIVE RowLoop(_, _, _)
RowLoop(rows, i, dict) ==
    IF i > Len(rows) THEN [raised |-> FALSE, dict |-> dict]
    ELSE IF RowRaises(rows[i]) THEN [raised |-> TRUE, dict |-> dict]
    ELSE LET drug1 == _normalize_drug_name(rows[i][1])
             drug2 == _normalize_drug_name(rows[i][2])
             key1 == drug1 \o "|" \o drug2
             key2 == drug2 \o "|" \o drug1
             data == interaction_data(rows[i])
         IN  RowLoop(rows, i + 1, (key2 :> data) @@ (key1 :> data) @@ dict)

_load_interactions_keeps_partial(file) ==
    IF ~file.exists THEN DictCache(<<>>)
    ELSE DictCache(RowLoop(file.rows, 1, <<>>).dict)

\* the cache after _load_interactions()
_load_interactions(file) ==
    IF ~file.exists THEN DictCache(<<>>)
    ELSE LET r == RowLoop(file.rows, 1, <<>>)
         IN  IF r.raised THEN DictCache(<<>>) ELSE DictCache(r.dict)

\* the interactions_db property: the cache after the access
interactions_db(cache, file) ==
    IF cache.none THEN _load_interactions(file) ELSE cache

\* for other_drug in other_drugs, from entry i on
RECURSIVE FindLoop(_, _, _, _, _, _)
FindLoop(drug_normalized, other_drugs, i, interactions, cache, file) ==
    IF i > Len(other_drugs) THEN [interactions |-> interactions, cache |-> cache]
    ELSE IF other_drugs[i] = "" \/ Strip(other_drugs[i]) = ""
    THEN FindLoop(drug_normalized, other_drugs, i + 1, interactions, cache, file)
    ELSE LET other_normalized == _normalize_drug_name(other_drugs[i])
             key == drug_normalized \o "|" \o other_normalized
             db == interactions_db(cache, file)
         IN  FindLoop(drug_normalized, other_drugs, i + 1,
                      IF key \in DOMAIN db.dict
                      THEN Append(interactions, db.dict[key])
                      ELSE interactions,
                      db, file)

find_interactions_no_blank_skip(drug_name, other_drugs, cache, file) ==
    LET drug_normalized == _normalize_drug_name(drug_name)
        RECURSIVE Loop(_, _, _)
        Loop(i, interactions, c) ==
            IF i > Len(other_drugs) THEN [interactions |-> interactions, cache |-> c]
            ELSE LET key == drug_normalized \o "|" \o _normalize_drug_name(other_drugs[i])
                     db == interactions_db(c, file)
                 IN  Loop(i + 1,
                          IF key \in DOMAIN db.dict
                          THEN Append(interactions, db.dict[key])
                          ELSE interactions,
                          db)
    IN  Loop(1, <<>>, cache)

find_interactions_returns_stored(drug_name, other_drugs, cache, file) ==
    LET drug_normalized == _normalize_drug_name(drug_name)
        RECURSIVE Loop(_, _, _)
        Loop(i, interactions, c) ==
            IF i > Len(other_drugs) THEN [interactions |-> interactions, cache |-> c]
            ELSE IF other_drugs[i] = "" \/ Strip(other_drugs[i]) = ""
            THEN Loop(i + 1, interactions, c)
            ELSE LET key == drug_normalized \o "|" \o _normalize_drug_name(other_drugs[i])
                     db == interactions_db(c, file)
                 IN  Loop(i + 1,
                          IF key \in DOMAIN db.dict
                          THEN Append(interactions, [ref |-> key])
                          ELSE interactions,
                          db)
    IN  Loop(1, <<>>, cache)

\* the list returned, and the cache the call leaves behind.  Each finding is
\* the .copy() of the stored record: an object of the caller's own, written
\* here as the record itself; a finding that was the stored object would be
\* written [ref |-> key]
find_interactions(drug_name, other_drugs, cache, file) ==
    FindLoop(_normalize_drug_name(drug_name), other_drugs, 1, <<>>, cache, file)

condition_drug_map == <<
    <<"gravidez", <<"methotrexate", "isotretinoin", "warfarin", "valproic acid">> >>,
    <<"gestação", <<"methotrexate", "isotretinoin", "warfarin", "valproic acid">> >>,
    <<"pregnant", <<"methotrexate", "isotretinoin", "warfarin", "valproic acid">> >>,
    <<"insuficiência renal", <<"metformin", "nsaid", "lithium">> >>,
    <<"renal", <<"metformin", "nsaid", "lithium">> >>,
    <<"kidney", <<"metformin", "nsaid", "lithium">> >>,
    <<"insuficiência hepática", <<"acetaminophen", "paracetamol", "statins">> >>,
    <<"liver", <<"acetaminophen", "paracetamol", "statins">> >>,
    <<"hepática", <<"acetaminophen", "paracetamol", "statins">> >>
>>

ConditionFinding(condition, contra_drug) ==
    [type |-> "Contraindicação por " \o condition,
     description |-> Capitalize(contra_drug) \o " pode ser contraindicado em pacientes com "
                     \o condition,
     severity |-> "high",
     source |-> "Diretrizes Clínicas",
     recommendation |-> "Avaliar alternativas terapêuticas com médico"]

\* the innermost loop: for contra_drug in contraindicated_drugs
RECURSIVE ContraDrugLoop(_, _, _, _)
ContraDrugLoop(drug_normalized, condition, contraindicated_drugs, j) ==
    IF j > Len(contraindicated_drugs) THEN <<>>
    ELSE (IF In(contraindicated_drugs[j], drug_normalized)
          THEN <<ConditionFinding(condition, contraindicated_drugs[j])>>
          ELSE <<>>)
         \o ContraDrugLoop(drug_normalized, condition, contraindicated_drugs, j + 1)

\* the middle loop: for condition_key, contraindicated_drugs in condition_drug_map.items()
RECURSIVE ConditionKeyLoop(_, _, _)
ConditionKeyLoop(drug_normalized, condition, k) ==
    IF k > Len(condition_drug_map) THEN <<>>
    ELSE (IF In(condition_drug_map[k][1], Strip(Lower(condition)))
          THEN ContraDrugLoop(drug_normalized, condition, condition_drug_map[k][2], 1)
          ELSE <<>>)
         \o ConditionKeyLoop(drug_normalized, condition, k + 1)

RECURSIVE ConditionLoop(_, _, _)
ConditionLoop(drug_normalized, conditions, i) ==
    IF i > Len(conditions) THEN <<>>
    ELSE ConditionKeyLoop(drug_normalized, conditions[i], 1)
         \o ConditionLoop(drug_normalized, conditions, i + 1)

_get_condition_contraindications_first_key_only(drug_normalized, conditions) ==
    LET RECURSIVE FirstKey(_, _)
        FirstKey(condition, k) ==
            IF k > Len(condition_drug_map) THEN <<>>
            ELSE IF In(condition_drug_map[k][1], Strip(Lower(condition)))
            THEN ContraDrugLoop(drug_normalized, condition, condition_drug_map[k][2], 1)
            ELSE FirstKey(condition, k + 1)
        RECURSIVE Conds(_)
        Conds(i) ==
            IF i > Len(conditions) THEN <<>>
            ELSE FirstKey(conditions[i], 1) \o Conds(i + 1)
    IN  Conds(1)

_get_condition_contraindications(drug_normalized, conditions) ==
    ConditionLoop(drug_normalized, conditions, 1)

AllergyFinding(allergy) ==
    [type |-> "Alergia Conhecida",
     description |-> "Paciente possui alergia conhecida a " \o allergy,
     severity |-> "critical",
     source |-> "Histórico do Paciente",
     recommendation |-> "CONTRAINDICADO - Não administrar"]

\* for allergy in allergies
RECURSIVE AllergyLoop(_, _, _)
AllergyLoop(drug_normalized, allergies, i) ==
    IF i > Len(allergies) THEN <<>>
    ELSE LET allergy_normalized == _normalize_drug_name(allergies[i])
         IN  (IF In(allergy_normalized, drug_normalized) \/ In(drug_normalized, allergy_normalized)
              THEN <<AllergyFinding(allergies[i])>>
              ELSE <<>>)
             \o AllergyLoop(drug_normalized, allergies, i + 1)

analyze_contraindications_one_way_match(drug_name, patient_conditions, allergies) ==
    LET drug_normalized == _normalize_drug_name(drug_name)
        RECURSIVE OneWay(_)
        OneWay(i) ==
            IF i > Len(allergies) THEN <<>>
            ELSE (IF In(_normalize_drug_name(allergies[i]), drug_normalized)
                  THEN <<AllergyFinding(allergies[i])>>
                  ELSE <<>>) \o OneWay(i + 1)
    IN  OneWay(1) \o _get_condition_contraindications(drug_normalized, patient_conditions)

analyze_contraindications(drug_name, patient_conditions, allergies) ==
    LET drug_normalized == _normalize_drug_name(drug_name)
    IN  AllergyLoop(drug_normalized, allergies, 1)
        \o _get_condition_contraindications(drug_normalized, patient_conditions)

\* len([f for f in findings if f['severity'] == sev])
CountSeverity(findings, sev) ==
    Cardinality({i \in DOMAIN findings : findings[i].severity = sev})

calculate_overall_risk_critical_only_contra(interactions, contraindications) ==
    IF \E i \in DOMAIN contraindications : contraindications[i].severity = "critical"
    THEN "critical"
    ELSE IF CountSeverity(interactions, "high") + CountSeverity(contraindications, "high") >= 1
    THEN "high"
    ELSE IF CountSeverity(interactions, "medium") + CountSeverity(contraindications, "medium") >= 1
    THEN "medium"
    ELSE "low"

calculate_overall_risk(interactions, contraindications) ==
    IF \E i \in DOMAIN contraindications : contraindications[i].severity = "critical"
    THEN "critical"
    ELSE IF \E i \in DOMAIN interactions : interactions[i].severity = "critical"
    THEN "critical"
    ELSE LET high_count == CountSeverity(interactions, "high")
                           + CountSeverity(contraindications, "high")
             medium_count == CountSeverity(interactions, "medium")
                             + CountSeverity(contraindications, "medium")
         IN  IF high_count >= 1 THEN "high"
             ELSE IF medium_count >= 1 THEN "medium"
             ELSE "low"

(***************************************************************************)
(* Risk ladder: calculate_overall_risk applied to arbitrary finding lists  *)
(***************************************************************************)
Levels == {"low", "medium", "high", "critical"}
Rank == ("low" :> 0) @@ ("medium" :> 1) @@ ("high" :> 2) @@ ("critical" :> 3)

\* severities a caller may put in a finding; "unknown" is outside the scale
SeverityInputs == Levels \cup {"unknown"}

SeqsUpTo(S, n) == UNION {[1..k -> S] : k \in 0..n}

FindingLists == SeqsUpTo([severity : SeverityInputs], MaxFindings)

InitRisk ==
    /\ db_file = NoFile
    /\ interactions_cache = NoneCache
    /\ \E interactions \in FindingLists, contraindications \in FindingLists :
           call = [op |-> "calculate_overall_risk",
                   interactions |-> interactions,
                   contraindications |-> contraindications]
    /\ ret = "none"
    /\ pc = "call"

CalculateOverallRisk ==
    /\ pc = "call"
    /\ call.op = "calculate_overall_risk"
    /\ ret' = calculate_overall_risk(call.interactions, call.contraindications)
    /\ pc' = "done"
    /\ UNCHANGED <<db_file, interactions_cache, call>>

NextRisk == CalculateOverallRisk

SpecRisk == InitRisk /\ [][NextRisk]_vars

\* severities present in interactions and contraindications together
AllSeverities ==
    {call.interactions[i].severity : i \in DOMAIN call.interactions}
    \cup {call.contraindications[i].severity : i \in DOMAIN call.contraindications}

\* C1: calculate_overall_risk returns the first matching rung (critical, high,
\* medium, else low) over interactions and contraindications together; for
\* severities on the scale this is their maximum, and low for two empty lists.
C1_RiskLadder ==
    (call.op = "calculate_overall_risk" /\ pc = "done") =>
        /\ "critical" \in AllSeverities => ret = "critical"
        /\ ("critical" \notin AllSeverities /\ "high" \in AllSeverities) => ret = "high"
        /\ ({"critical", "high"} \cap AllSeverities = {} /\ "medium" \in AllSeverities)
               => ret = "medium"
        /\ {"critical", "high", "medium"} \cap AllSeverities = {} => ret = "low"
        /\ (AllSeverities # {} /\ AllSeverities \subseteq Levels) =>
               /\ ret \in AllSeverities
               /\ \A s \in AllSeverities : Rank[s] <= Rank[ret]
        /\ AllSeverities = {} => ret = "low"

\* a critical interaction beside a high contraindication
C1_Witness ==
    /\ call.op = "calculate_overall_risk"
    /\ pc = "done"
    /\ \E i \in DOMAIN call.interactions : call.interactions[i].severity = "critical"
    /\ \E i \in DOMAIN call.contraindications : call.contraindications[i].severity = "high"
    /\ ret = "critical"

(***************************************************************************)
(* ClinicalRulesAgent: escalation of the base risk by the patient's        *)
(* risk-factor counts                                                      *)
(***************************************************************************)
EscalateRisk_high_risk_first(risk_level, critical_risk_count, high_risk_count) ==
    IF critical_risk_count >= 2 THEN "critical"
    ELSE IF high_risk_count >= 1 /\ risk_level = "low" THEN "medium"
    ELSE IF critical_risk_count >= 1 /\ risk_level \in {"low"} THEN "high"
    ELSE IF high_risk_count >= 2 /\ risk_level = "low" THEN "high"
    ELSE risk_level

EscalateRisk_ignores_base(risk_level, critical_risk_count, high_risk_count) ==
    IF critical_risk_count >= 2 THEN "critical"
    ELSE IF critical_risk_count >= 1 THEN "high"
    ELSE IF high_risk_count >= 2 /\ risk_level = "low" THEN "high"
    ELSE IF high_risk_count >= 1 /\ risk_level = "low" THEN "medium"
    ELSE risk_level

EscalateRisk(risk_level, critical_risk_count, high_risk_count) ==
    IF critical_risk_count >= 2 THEN "critical"
    ELSE IF critical_risk_count >= 1 /\ risk_level \in {"low"} THEN "high"
    ELSE IF high_risk_count >= 2 /\ risk_level = "low" THEN "high"
    ELSE IF high_risk_count >= 1 /\ risk_level = "low" THEN "medium"
    ELSE risk_level

InitEscalation ==
    /\ db_file = NoFile
    /\ interactions_cache = NoneCache
    /\ \E base \in Levels, c \in 0..MaxRiskCount, h \in 0..MaxRiskCount :
           call = [op |-> "escalate", risk_level |-> base,
                   critical_risk_count |-> c, high_risk_count |-> h]
    /\ ret = "none"
    /\ pc = "call"

Escalate ==
    /\ pc = "call"
    /\ call.op = "escalate"
    /\ ret' = EscalateRisk(call.risk_level, call.critical_risk_count, call.high_risk_count)
    /\ pc' = "done"
    /\ UNCHANGED <<db_file, interactions_cache, call>>

NextEscalation == Escalate

SpecEscalation == InitEscalation /\ [][NextEscalation]_vars

\* C2: the escalation follows the precedence: criticalRiskCount >= 2 forces
\* critical; else criticalRiskCount >= 1 with base low forces high; else
\* highRiskCount >= 2 with base low forces high; else highRiskCount >= 1 with
\* base low forces medium; in every other case the final level is the base.
C2_EscalationPrecedence ==
    (call.op = "escalate" /\ pc = "done") =>
        LET c == call.critical_risk_count
            h == call.high_risk_count
            base == call.risk_level
        IN  /\ c >= 2 => ret = "critical"
            /\ (c = 1 /\ base = "low") => ret = "high"
            /\ (c = 0 /\ h >= 2 /\ base = "low") => ret = "high"
            /\ (c = 0 /\ h = 1 /\ base = "low") => ret = "medium"
            /\ (c < 2 /\ base # "low") => ret = base
            /\ (c = 0 /\ h = 0) => ret = base

\* one critical match and one high match on a low base: the critical rule wins
C2_Witness ==
    /\ call.op = "escalate"
    /\ pc = "done"
    /\ call.critical_risk_count = 1
    /\ call.high_risk_count = 1
    /\ call.risk_level = "low"
    /\ ret = "high"

\* C3: escalation never downgrades: the level after the escalation stage is at
\* least the base level on the scale low < medium < high < critical.
C3_EscalationMonotonic ==
    (call.op = "escalate" /\ pc = "done") => Rank[ret] >= Rank[call.risk_level]

\* a critical base with one critical risk-factor match stays critical
C3_Witness ==
    /\ call.op = "escalate"
    /\ pc = "done"
    /\ call.risk_level = "critical"
    /\ call.critical_risk_count = 1
    /\ ret = "critical"

(***************************************************************************)
(* Severity classifier applied to free-text descriptions                   *)
(***************************************************************************)
Fragments ==
    {"This combination is contraindicated", " and may require monitoring",
     "Significant TOXICITY", " use Caution", "no known effect",
     "May Increase bleeding", "SEVERE", " Moderate "}

RECURSIVE Concat(_)
Concat(ss) == IF ss = <<>> THEN "" ELSE Head(ss) \o Concat(Tail(ss))

Descriptions == {Concat(fs) : fs \in SeqsUpTo(Fragments, MaxFragments)}

InitClassify ==
    /\ db_file = NoFile
    /\ interactions_cache = NoneCache
    /\ \E d \in Descriptions : call = [op |-> "_classify_severity", description |-> d]
    /\ ret = "none"
    /\ pc = "call"

ClassifySeverity ==
    /\ pc = "call"
    /\ call.op = "_classify_severity"
    /\ ret' = _classify_severity(call.description)
    /\ pc' = "done"
    /\ UNCHANGED <<db_file, interactions_cache, call>>

NextClassify == ClassifySeverity

SpecClassify == InitClassify /\ [][NextClassify]_vars

HasKeyword(keywords) ==
    \E k \in DOMAIN keywords : In(keywords[k], Lower(call.description))

\* C5: the lower-cased description is tested against the critical, high and
\* medium keyword sets in that order and the first set with a match wins, low
\* when none matches; critical+medium gives critical, high+medium gives high.
C5_SeverityPrecedence ==
    (call.op = "_classify_severity" /\ pc = "done") =>
        /\ HasKeyword(critical_keywords) => ret = "critical"
        /\ (~HasKeyword(critical_keywords) /\ HasKeyword(high_keywords)) => ret = "high"
        /\ (~HasKeyword(critical_keywords) /\ ~HasKeyword(high_keywords)
               /\ HasKeyword(medium_keywords)) => ret = "medium"
        /\ (~HasKeyword(critical_keywords) /\ ~HasKeyword(high_keywords)
               /\ ~HasKeyword(medium_keywords)) => ret = "low"
        /\ call.description = "This combination is contraindicated and may require monitoring"
               => ret = "critical"
        /\ call.description = "Significant TOXICITY use Caution" => ret = "high"

\* the description with a critical and a medium keyword has been classified
C5_Witness ==
    /\ call.op = "_classify_severity"
    /\ pc = "done"
    /\ call.description = "This combination is contraindicated and may require monitoring"
    /\ HasKeyword(critical_keywords)
    /\ HasKeyword(medium_keywords)
    /\ ret = "critical"

(***************************************************************************)
(* Contraindication analysis of a drug against conditions and allergies    *)
(***************************************************************************)
ContraDrugNames == {"Amoxicillin", "Metformina", "Warfarin", " Tylenol "}
ConditionInputs == {"Insuficiência Renal", "Gravidez", "insuficiência hepática", "diabetes"}
AllergyInputs == {"Penicillin", "Amoxicilina", "", "Metformin XR"}

InitContra ==
    /\ db_file = NoFile
    /\ interactions_cache = NoneCache
    /\ \E d \in ContraDrugNames,
          cs \in SeqsUpTo(ConditionInputs, MaxConditions),
          as \in SeqsUpTo(AllergyInputs, MaxAllergies) :
           call = [op |-> "analyze_contraindications", drug_name |-> d,
                   patient_conditions |-> cs, allergies |-> as]
    /\ ret = "none"
    /\ pc = "call"

AnalyzeContraindications ==
    /\ pc = "call"
    /\ call.op = "analyze_contraindications"
    /\ ret' = analyze_contraindications(call.drug_name, call.patient_conditions, call.allergies)
    /\ pc' = "done"
    /\ UNCHANGED <<db_file, interactions_cache, call>>

NextContra == AnalyzeContraindications

SpecContra == InitContra /\ [][NextContra]_vars

ContraDone == call.op = "analyze_contraindications" /\ pc = "done"

\* positions of the allergies that match the drug by substring, either way
AllergyMatches ==
    LET dn == _normalize_drug_name(call.drug_name)
    IN  {i \in DOMAIN call.allergies :
            \/ In(_normalize_drug_name(call.allergies[i]), dn)
            \/ In(dn, _normalize_drug_name(call.allergies[i]))}

\* C6: one finding of severity critical and type known-allergy per allergy
\* entry, in list order, exactly when the normalized allergy is a substring of
\* the normalized drug name or the reverse; every allergy finding precedes
\* every condition-based finding.
C6_AllergyCheck ==
    ContraDone =>
        LET M == AllergyMatches
        IN  /\ Len(ret) >= Cardinality(M)
            /\ \A i \in M :
                   LET pos == Cardinality({j \in M : j <= i})
                   IN  /\ ret[pos].severity = "critical"
                       /\ ret[pos].type = "Alergia Conhecida"
                       /\ ret[pos].description
                            = "Paciente possui alergia conhecida a " \o call.allergies[i]
            /\ \A p \in (Cardinality(M) + 1)..Len(ret) :
                   /\ ret[p].type # "Alergia Conhecida"
                   /\ ret[p].severity = "high"

\* an allergy that contains the drug name, one that does not match, and a
\* condition finding after the allergy finding
C6_Witness ==
    /\ ContraDone
    /\ call.drug_name = "Metformina"
    /\ call.allergies = <<"Penicillin", "Metformin XR">>
    /\ Len(ret) >= 2
    /\ ret[1].type = "Alergia Conhecida"
    /\ ret[2].severity = "high"

\* C7 as stated: allergies = ["Penicillin"] and drug = "Amoxicillin" give a
\* finding of severity critical.
C7_PenicillinAmoxicillinCritical ==
    (ContraDone /\ call.drug_name = "Amoxicillin" /\ call.allergies = <<"Penicillin">>)
        => \E i \in DOMAIN ret : ret[i].severity = "critical"

\* C7 (amended): "penicillin" and "amoxicillin" are not substrings of one
\* another, so allergies = ["Penicillin"] with drug = "Amoxicillin" gives no
\* critical finding; allergies = ["Amoxicilina"] with the same drug does.
C7_AllergySubstringOnly ==
    (ContraDone /\ call.drug_name = "Amoxicillin") =>
        /\ call.allergies = <<"Penicillin">>
               => \A i \in DOMAIN ret : ret[i].severity # "critical"
        /\ call.allergies = <<"Amoxicilina">>
               => \E i \in DOMAIN ret : ret[i].severity = "critical"

C7_Witness ==
    /\ ContraDone
    /\ call.drug_name = "Amoxicillin"
    /\ call.allergies = <<"Penicillin">>
    /\ call.patient_conditions = <<>>
    /\ ret = <<>>

\* (condition position, table entry, contraindicated-drug position) with the
\* table key in the lower-cased condition and the drug substring in the
\* normalized drug name
ConditionTriples ==
    LET dn == _normalize_drug_name(call.drug_name)
        lowered == [i \in DOMAIN call.patient_conditions |-> Lower(call.patient_conditions[i])]
    IN  {t \in (DOMAIN call.patient_conditions) \X (DOMAIN condition_drug_map) \X (1..4) :
            /\ t[3] \in DOMAIN condition_drug_map[t[2]][2]
            /\ In(condition_drug_map[t[2]][1], lowered[t[1]])
            /\ In(condition_drug_map[t[2]][2][t[3]], dn)}

LexLeq(t, u) ==
    \/ t[1] < u[1]
    \/ t[1] = u[1] /\ t[2] < u[2]
    \/ t[1] = u[1] /\ t[2] = u[2] /\ t[3] <= u[3]

\* C8: one finding of severity high per matching (condition, table key,
\* contraindicated-drug substring) triple and nothing else; empty conditions
\* and allergies give an empty sequence.
C8_ConditionCheck ==
    ContraDone =>
        LET nA == Cardinality({p \in DOMAIN ret : ret[p].type = "Alergia Conhecida"})
            T == ConditionTriples
        IN  /\ Len(ret) = nA + Cardinality(T)
            /\ \A t \in T :
                   LET f == ret[nA + Cardinality({u \in T : LexLeq(u, t)})]
                   IN  /\ f.severity = "high"
                       /\ f.type = "Contraindicação por " \o call.patient_conditions[t[1]]
                       /\ f.description
                            = Capitalize(condition_drug_map[t[2]][2][t[3]])
                              \o " pode ser contraindicado em pacientes com "
                              \o call.patient_conditions[t[1]]
            /\ (call.patient_conditions = <<>> /\ call.allergies = <<>>) => ret = <<>>

\* a condition that matches two table keys gives two findings
C8_Witness ==
    /\ ContraDone
    /\ call.drug_name = "Metformina"
    /\ call.patient_conditions = <<"Insuficiência Renal">>
    /\ call.allergies = <<>>
    /\ Len(ret) = 2
    /\ ret[1].severity = "high"
    /\ ret[2].severity = "high"

(***************************************************************************)
(* The interaction index: lazy load from the dataset file, and lookups     *)
(***************************************************************************)
RowInputs ==
    {<<"Warfarin", "Aspirin", "increased risk of bleeding">>,
     <<"aspirina", "Varfarina", "Contraindicated: may cause death">>,
     <<"Ibuprofen", "", "monitor closely">>,
     <<"Warfarin", "Ibuprofen">>}

Datasets ==
    {NoFile} \cup {[exists |-> TRUE, rows |-> rows] : rows \in SeqsUpTo(RowInputs, MaxRows)}

QueryDrugs == {"Warfarin", "Coumadin", "Ibuprofen"}
OtherInputs == {"Aspirin", "", " ", "Metformina"}

InitIndex ==
    /\ db_file \in Datasets
    /\ interactions_cache = NoneCache
    /\ call = [op |-> "none"]
    /\ ret = "none"
    /\ pc = "call"

FindInteractions ==
    /\ pc = "call"
    /\ \E drug_name \in QueryDrugs, other_drugs \in SeqsUpTo(OtherInputs, MaxOthers) :
           LET r == find_interactions(drug_name, other_drugs, interactions_cache, db_file)
           IN  /\ call' = [op |-> "find_interactions", drug_name |-> drug_name,
                           other_drugs |-> other_drugs]
               /\ ret' = r.interactions
               /\ interactions_cache' = r.cache
    /\ pc' = "done"
    /\ UNCHANGED db_file

NextIndex == FindInteractions

SpecIndex == InitIndex /\ [][NextIndex]_vars

\* the index has been built from a file whose rows all parse
IndexBuilt ==
    /\ ~interactions_cache.none
    /\ db_file.exists
    /\ \A i \in DOMAIN db_file.rows : ~RowRaises(db_file.rows[i])

\* C4: once the index is built, for every dataset row (a, b) both key orders
\* resolve to the same record, and find_interactions(a, [b]) and
\* find_interactions(b, [a]) return records with identical severity, category
\* and description.
C4_Symmetry ==
    IndexBuilt =>
        \A i \in DOMAIN db_file.rows :
            LET a == db_file.rows[i][1]
                b == db_file.rows[i][2]
                key1 == _normalize_drug_name(a) \o "|" \o _normalize_drug_name(b)
                key2 == _normalize_drug_name(b) \o "|" \o _normalize_drug_name(a)
                dict == interactions_cache.dict
                ab == find_interactions(a, <<b>>, interactions_cache, db_file).interactions
                ba == find_interactions(b, <<a>>, interactions_cache, db_file).interactions
            IN  /\ key1 \in DOMAIN dict
                /\ key2 \in DOMAIN dict
                /\ dict[key1] = dict[key2]
                /\ Len(ab) = 1
                /\ Len(ba) = 1
                /\ ab[1].severity = ba[1].severity
                /\ ab[1].category = ba[1].category
                /\ ab[1].description = ba[1].description

FindDone == call.op = "find_interactions" /\ pc = "done"

\* positions of other_drugs that are not blank and whose pair is in the index
Hits ==
    LET dict == interactions_db(interactions_cache, db_file).dict
        dn == _normalize_drug_name(call.drug_name)
    IN  {i \in DOMAIN call.other_drugs :
            /\ Strip(call.other_drugs[i]) # ""
            /\ (dn \o "|" \o _normalize_drug_name(call.other_drugs[i])) \in DOMAIN dict}

C29_LastRowWins ==
    IndexBuilt =>
        LET rows == db_file.rows
            dict == interactions_cache.dict
            n1(i) == _normalize_drug_name(rows[i][1])
            n2(i) == _normalize_drug_name(rows[i][2])
            SamePair(i, j) == \/ n1(i) = n1(j) /\ n2(i) = n2(j)
                              \/ n1(i) = n2(j) /\ n2(i) = n1(j)
            Last(i) == CHOOSE j \in DOMAIN rows :
                           /\ SamePair(i, j)
                           /\ \A k \in DOMAIN rows : SamePair(i, k) => k <= j
            Lookup(a, b) == find_interactions(a, <<b>>, interactions_cache, db_file).interactions
        IN  \A i \in DOMAIN rows :
                LET data == interaction_data(rows[Last(i)])
                IN  /\ dict[n1(i) \o "|" \o n2(i)] = data
                    /\ dict[n2(i) \o "|" \o n1(i)] = data
                    /\ (n1(i) # "" /\ n2(i) # "") =>
                           /\ Lookup(rows[i][1], rows[i][2]) = <<data>>
                           /\ Lookup(rows[i][2], rows[i][1]) = <<data>>
                    /\ \A k \in DOMAIN dict :
                           interaction_data(rows[i]) # data => dict[k] # interaction_data(rows[i])

\* warfarin and aspirin in two rows, the second through synonyms and with the
\* columns swapped: the lookup returns the second row's record
C29_Witness ==
    /\ IndexBuilt
    /\ db_file.rows = <<<<"Warfarin", "Aspirin", "increased risk of bleeding">>,
                        <<"aspirina", "Varfarina", "Contraindicated: may cause death">>>>
    /\ FindDone
    /\ call.drug_name = "Coumadin"
    /\ call.other_drugs = <<"Aspirin">>
    /\ Len(ret) = 1
    /\ ret[1].drug1 = "aspirina"
    /\ ret[1].severity = "critical"

(***************************************************************************)
(* One service used over and over: lookups, contraindication analyses,     *)
(* risk calculations, and a caller writing into a finding it was returned  *)
(***************************************************************************)
ServiceDrugs == {"Warfarin", "Aspirin"}
ServiceOthers == {<<>>, <<"Aspirin">>, <<"Ibuprofen", "Varfarina">>}

InitService ==
    /\ db_file \in Datasets
    /\ interactions_cache = NoneCache
    /\ call = [op |-> "none"]
    /\ ret = "none"
    /\ pc = "call"

ServiceFind ==
    /\ \E drug_name \in ServiceDrugs, other_drugs \in ServiceOthers :
           LET r == find_interactions(drug_name, other_drugs, interactions_cache, db_file)
           IN  /\ call' = [op |-> "find_interactions", drug_name |-> drug_name,
                           other_drugs |-> other_drugs]
               /\ ret' = r.interactions
               /\ interactions_cache' = r.cache
    /\ pc' = "done"
    /\ UNCHANGED db_file

ServiceContra ==
    /\ \E drug_name \in ServiceDrugs, allergies \in {<<>>, <<"AAS">>} :
           /\ call' = [op |-> "analyze_contraindications", drug_name |-> drug_name,
                       patient_conditions |-> <<"Gravidez">>, allergies |-> allergies]
           /\ ret' = analyze_contraindications(drug_name, <<"Gravidez">>, allergies)
    /\ pc' = "done"
    /\ UNCHANGED <<db_file, interactions_cache>>

ServiceRisk ==
    /\ \E interactions \in {<<>>, <<[severity |-> "high"]>>},
          contraindications \in {<<>>, <<[severity |-> "critical"]>>} :
           /\ call' = [op |-> "calculate_overall_risk", interactions |-> interactions,
                       contraindications |-> contraindications]
           /\ ret' = calculate_overall_risk(interactions, contraindications)
    /\ pc' = "done"
    /\ UNCHANGED <<db_file, interactions_cache>>

\* the index key with its two sides swapped: _load_interactions stores one
\* object under both
Mirror(key) ==
    LET bar == CHOOSE i \in 1..Len(key) :
                   /\ CharAt(key, i) = "|"
                   /\ \A j \in 1..(i - 1) : CharAt(key, j) # "|"
    IN  SubSeq(key, bar + 1, Len(key)) \o "|" \o SubSeq(key, 1, bar - 1)

\* obj['severity'] = value on the object stored under key
StoreSeverity(dict, key, value) ==
    [k \in DOMAIN dict |->
        IF k \in {key, Mirror(key)} THEN [dict[k] EXCEPT !.severity = value] ELSE dict[k]]

\* the caller assigns to a field of a finding find_interactions returned
CallerModifiesFinding ==
    /\ pc = "done"
    /\ call.op = "find_interactions"
    /\ \E i \in DOMAIN ret, value \in {"low", "critical"} :
           IF "ref" \in DOMAIN ret[i]
           THEN /\ interactions_cache' =
                       [interactions_cache EXCEPT !.dict = StoreSeverity(@, ret[i].ref, value)]
                /\ ret' = ret
           ELSE /\ ret' = [ret EXCEPT ![i].severity = value]
                /\ interactions_cache' = interactions_cache
    /\ UNCHANGED <<db_file, call, pc>>

NextService == ServiceFind \/ ServiceContra \/ ServiceRisk \/ CallerModifiesFinding

SpecService == InitService /\ [][NextService]_vars

\* building the index from the file fails: no file, or a row that raises
BuildFails == ~db_file.exists \/ \E i \in DOMAIN db_file.rows : RowRaises(db_file.rows[i])

\* C11: when building the index fails (file missing, or an error on a row
\* after earlier rows were inserted) the index ends up empty, not partially
\* filled, the call that triggered the build still returns, and every
\* find_interactions call on the service returns an empty sequence.
C11_FailedBuildLeavesEmptyIndex ==
    BuildFails =>
        /\ ~interactions_cache.none => DOMAIN interactions_cache.dict = {}
        /\ (call.op = "find_interactions" /\ pc = "done") =>
               /\ ~interactions_cache.none \/ \A i \in DOMAIN call.other_drugs :
                                                  Strip(call.other_drugs[i]) = ""
               /\ ret = <<>>

\* a good row followed by a row that raises, and a lookup of the good row's pair
C11_Witness ==
    /\ db_file.exists
    /\ Len(db_file.rows) = 2
    /\ ~RowRaises(db_file.rows[1])
    /\ RowRaises(db_file.rows[2])
    /\ db_file.rows[1][1] = "Warfarin"
    /\ db_file.rows[1][2] = "Aspirin"
    /\ call.op = "find_interactions"
    /\ pc = "done"
    /\ call.drug_name = "Warfarin"
    /\ call.other_drugs = <<"Aspirin">>
    /\ ~interactions_cache.none
    /\ ret = <<>>

\* C15: once built, the index is never changed: no lookup, contraindication
\* analysis or risk calculation, and no write of a caller into a finding it
\* was returned, changes the keys of the index or a stored record.
C15_IndexNeverMutated ==
    [][~interactions_cache.none => interactions_cache' = interactions_cache]_vars

\* the caller has changed the severity of a returned finding, and the stored
\* record still has the severity it was built with
C15_Witness ==
    /\ call.op = "find_interactions"
    /\ pc = "done"
    /\ call.drug_name = "Warfarin"
    /\ call.other_drugs = <<"Aspirin">>
    /\ Len(ret) = 1
    /\ ret[1].severity = "critical"
    /\ interactions_cache.dict["warfarin|acetylsalicylic acid"].severity = "low"
    /\ interactions_cache = _load_interactions(db_file)

(***************************************************************************)
(* ClinicalRulesAgent.analyze_contraindications                            *)
(* Characters outside Latin-1 in the agent's texts (emoji, the >= sign)    *)
(* are written in ASCII or left out; no test reads those texts.            *)
(* confidence_score is in hundredths: 85 stands for 0.85.                  *)
(***************************************************************************)
_get_interaction_recommendation(severity) ==
    CASE severity = "critical" ->
           "EVITAR COMBINAÇÃO - Risco de reação grave. Consulte médico IMEDIATAMENTE."
      [] severity = "high" ->
           "Usar com EXTREMA CAUTELA - Monitoramento médico rigoroso necessário."
      [] severity = "medium" ->
           "Usar com cautela - Monitorar sinais e sintomas. Informar médico."
      [] severity = "low" ->
           "Risco mínimo - Manter acompanhamento médico de rotina."
      [] OTHER -> "Consultar profissional de saúde."

\* one entry of interactions_found
FormatInteraction(interaction, medication_name) ==
    [interacting_drug |->
        IF In(Lower(interaction.drug1), Lower(medication_name))
        THEN interaction.drug2
        ELSE interaction.drug1,
     effect |-> interaction.description,
     severity |-> interaction.severity,
     mechanism |-> interaction.category,
     recommendation |-> _get_interaction_recommendation(interaction.severity)]

\* ' '.join(strings)
RECURSIVE JoinSpace(_)
JoinSpace(ss) ==
    IF ss = <<>> THEN ""
    ELSE IF Len(ss) = 1 THEN ss[1]
    ELSE ss[1] \o " " \o JoinSpace(Tail(ss))

\* '\n'.join(lines)
RECURSIVE JoinLines(_)
JoinLines(ss) ==
    IF ss = <<>> THEN ""
    ELSE IF Len(ss) = 1 THEN ss[1]
    ELSE ss[1] \o "\n" \o JoinLines(Tail(ss))

_check_dosage_adjustments_over_70(medication, age, conditions) ==
    LET joined == Lower(JoinSpace(conditions))
    IN  (IF age > 70
         THEN <<[reason |-> "Paciente idoso (>=65 anos)",
                 recommendation |-> "Considerar dose reduzida. Idosos têm metabolismo mais lento.",
                 adjustment_type |-> "dose_reduction"]>>
         ELSE <<>>)
        \o
        (IF age < 18
         THEN <<[reason |-> "Paciente pediátrico (" \o ToString(age) \o " anos)",
                 recommendation |-> "Calcular dose baseada em peso corporal (mg/kg). Consultar pediatra.",
                 adjustment_type |-> "pediatric_dosing"]>>
         ELSE <<>>)
        \o
        (IF AnyIn(<<"renal", "rim", "kidney">>, joined)
         THEN <<[reason |-> "Insuficiência renal",
                 recommendation |-> "Ajustar dose baseado em clearance de creatinina. Monitorar função renal.",
                 adjustment_type |-> "renal_impairment"]>>
         ELSE <<>>)
        \o
        (IF AnyIn(<<"hepática", "liver", "fígado">>, joined)
         THEN <<[reason |-> "Insuficiência hepática",
                 recommendation |-> "Reduzir dose. Monitorar enzimas hepáticas regularmente.",
                 adjustment_type |-> "hepatic_impairment"]>>
         ELSE <<>>)

_check_dosage_adjustments(medication, age, conditions) ==
    LET joined == Lower(JoinSpace(conditions))
    IN  (IF age >= 65
         THEN <<[reason |-> "Paciente idoso (>=65 anos)",
                 recommendation |-> "Considerar dose reduzida. Idosos têm metabolismo mais lento.",
                 adjustment_type |-> "dose_reduction"]>>
         ELSE <<>>)
        \o
        (IF age < 18
         THEN <<[reason |-> "Paciente pediátrico (" \o ToString(age) \o " anos)",
                 recommendation |-> "Calcular dose baseada em peso corporal (mg/kg). Consultar pediatra.",
                 adjustment_type |-> "pediatric_dosing"]>>
         ELSE <<>>)
        \o
        (IF AnyIn(<<"renal", "rim", "kidney">>, joined)
         THEN <<[reason |-> "Insuficiência renal",
                 recommendation |-> "Ajustar dose baseado em clearance de creatinina. Monitorar função renal.",
                 adjustment_type |-> "renal_impairment"]>>
         ELSE <<>>)
        \o
        (IF AnyIn(<<"hepática", "liver", "fígado">>, joined)
         THEN <<[reason |-> "Insuficiência hepática",
                 recommendation |-> "Reduzir dose. Monitorar enzimas hepáticas regularmente.",
                 adjustment_type |-> "hepatic_impairment"]>>
         ELSE <<>>)

\* the if/elif chain of _get_common_adverse_reactions: for each drug class the
\* name substrings tested and the reactions added
REACTION_GROUPS == <<
    \* clinical.py:329
    [names |-> <<"ibuprofen", "ibuprofeno", "aspirin", "aspirina", "diclofenac", "naproxen">>,
     reactions |-> <<
         [reaction |-> "Irritação gastrointestinal",
          description |-> "Dor epigástrica, náuseas, azia, possível úlcera péptica",
          frequency |-> "Muito comum (>10%)",
          severity |-> "Moderada a grave",
          risk_factors |-> <<"uso prolongado", "história de úlcera", "uso concomitante de anticoagulantes">>],
         [reaction |-> "Disfunção renal",
          description |-> "Redução da filtração glomerular, retenção de líquidos",
          frequency |-> "Comum (1-10%)",
          severity |-> "Moderada",
          risk_factors |-> <<"idosos", "desidratação", "insuficiência renal prévia">>],
         [reaction |-> "Aumento de pressão arterial",
          description |-> "Elevação da pressão arterial, edema periférico",
          frequency |-> "Comum (1-10%)",
          severity |-> "Moderada",
          risk_factors |-> <<"hipertensão", "insuficiência cardíaca">>]
     >>],
    \* clinical.py:355
    [names |-> <<"warfarin", "varfarina", "marevan">>,
     reactions |-> <<
         [reaction |-> "Sangramento",
          description |-> "Hemorragias (nasal, gengival, hematomas, sangue na urina/fezes)",
          frequency |-> "Comum (1-10%)",
          severity |-> "Grave",
          risk_factors |-> <<"INR elevado", "trauma", "cirurgia recente", "idade >65 anos">>],
         [reaction |-> "Necrose cutânea",
          description |-> "Necrose de pele e tecido subcutâneo (raro)",
          frequency |-> "Raro (<0.1%)",
          severity |-> "Grave",
          risk_factors |-> <<"deficiência de proteína C/S", "doses altas iniciais">>]
     >>],
    \* clinical.py:374
    [names |-> <<"metformin", "metformina", "glifage">>,
     reactions |-> <<
         [reaction |-> "Distúrbios gastrointestinais",
          description |-> "Diarreia, náuseas, vômitos, flatulência, gosto metálico",
          frequency |-> "Muito comum (>10%)",
          severity |-> "Leve a moderada",
          risk_factors |-> <<"início de tratamento", "doses altas">>],
         [reaction |-> "Acidose lática",
          description |-> "Acúmulo de ácido lático (EMERGÊNCIA MÉDICA)",
          frequency |-> "Muito raro (<0.01%)",
          severity |-> "Crítica",
          risk_factors |-> <<"insuficiência renal", "insuficiência hepática", "desidratação", "sepse">>],
         [reaction |-> "Deficiência de vitamina B12",
          description |-> "Redução da absorção de B12 (uso prolongado)",
          frequency |-> "Comum (1-10%)",
          severity |-> "Leve",
          risk_factors |-> <<"uso prolongado >4 anos", "não suplementação">>]
     >>],
    \* clinical.py:400
    [names |-> <<"atorvastatin", "atorvastatina", "simvastatin", "simvastatina", "rosuva">>,
     reactions |-> <<
         [reaction |-> "Mialgia e dor muscular",
          description |-> "Dor muscular, fraqueza, cãibras",
          frequency |-> "Comum (1-10%)",
          severity |-> "Leve a moderada",
          risk_factors |-> <<"doses altas", "interações medicamentosas", "idosos">>],
         [reaction |-> "Rabdomiólise",
          description |-> "Destruição muscular grave com liberação de mioglobina",
          frequency |-> "Raro (<0.1%)",
          severity |-> "Crítica",
          risk_factors |-> <<"doses altas", "interação com fibratos", "hipotireoidismo">>],
         [reaction |-> "Elevação de enzimas hepáticas",
          description |-> "Aumento de ALT/AST",
          frequency |-> "Comum (1-10%)",
          severity |-> "Leve a moderada",
          risk_factors |-> <<"doença hepática prévia", "uso concomitante de álcool">>]
     >>],
    \* clinical.py:426
    [names |-> <<"fluoxetine", "fluoxetina", "sertraline", "sertralina", "prozac", "zoloft">>,
     reactions |-> <<
         [reaction |-> "Síndrome serotoninérgica",
          description |-> "Agitação, confusão, taquicardia, hipertermia, tremores",
          frequency |-> "Raro (<0.1%)",
          severity |-> "Grave",
          risk_factors |-> <<"uso concomitante de outros serotoninérgicos", "tramadol", "IMAOs">>],
         [reaction |-> "Disfunção sexual",
          description |-> "Diminuição da libido, disfunção erétil, anorgasmia",
          frequency |-> "Muito comum (>10%)",
          severity |-> "Moderada",
          risk_factors |-> <<"doses elevadas", "uso prolongado">>],
         [reaction |-> "Insônia ou sonolência",
          description |-> "Alterações no padrão de sono",
          frequency |-> "Comum (1-10%)",
          severity |-> "Leve",
          risk_factors |-> <<"início de tratamento">>]
     >>],
    \* clinical.py:452
    [names |-> <<"diazepam", "clonazepam", "alprazolam", "rivotril", "valium">>,
     reactions |-> <<
         [reaction |-> "Sedação e sonolência",
          description |-> "Sonolência diurna, diminuição de reflexos, fadiga",
          frequency |-> "Muito comum (>10%)",
          severity |-> "Moderada",
          risk_factors |-> <<"idosos", "doses altas", "uso de álcool">>],
         [reaction |-> "Dependência e abstinência",
          description |-> "Dependência física e psicológica, síndrome de abstinência",
          frequency |-> "Comum (1-10%)",
          severity |-> "Grave",
          risk_factors |-> <<"uso prolongado >4 semanas", "doses altas", "histórico de dependência">>],
         [reaction |-> "Prejuízo cognitivo",
          description |-> "Dificuldade de concentração, amnésia anterógrada",
          frequency |-> "Comum (1-10%)",
          severity |-> "Moderada",
          risk_factors |-> <<"idosos", "doses altas">>]
     >>],
    \* clinical.py:478
    [names |-> <<"paracetamol", "acetaminophen", "tylenol">>,
     reactions |-> <<
         [reaction |-> "Hepatotoxicidade",
          description |-> "Lesão hepática (doses >4g/dia ou intoxicação)",
          frequency |-> "Raro em doses terapêuticas",
          severity |-> "Crítica (em overdose)",
          risk_factors |-> <<"doses >4g/dia", "uso de álcool", "doença hepática", "jejum">>],
         [reaction |-> "Reações alérgicas",
          description |-> "Rash cutâneo, urticária (raro)",
          frequency |-> "Raro (<0.1%)",
          severity |-> "Leve a moderada",
          risk_factors |-> <<"histórico de alergias">>]
     >>],
    \* clinical.py:497
    [names |-> <<"levofloxacin", "ciprofloxacin", "norfloxacin">>,
     reactions |-> <<
         [reaction |-> "Tendinite e ruptura de tendão",
          description |-> "Inflamação e possível ruptura do tendão de Aquiles",
          frequency |-> "Incomum (0.1-1%)",
          severity |-> "Grave",
          risk_factors |-> <<"idade >60 anos", "corticoides", "atividade física intensa">>],
         [reaction |-> "Fotossensibilidade",
          description |-> "Aumento da sensibilidade à luz solar",
          frequency |-> "Comum (1-10%)",
          severity |-> "Leve a moderada",
          risk_factors |-> <<"exposição solar">>],
         [reaction |-> "Prolongamento do intervalo QT",
          description |-> "Risco de arritmias cardíacas",
          frequency |-> "Raro (<0.1%)",
          severity |-> "Grave",
          risk_factors |-> <<"cardiopatia", "uso de outros QT prolongadores", "distúrbios eletrolíticos">>]
     >>]
>>

GENERIC_REACTIONS == <<
         [reaction |-> "Reações adversas gerais",
          description |-> "Consulte a bula para lista completa de reações adversas específicas",
          frequency |-> "Variável",
          severity |-> "Variável",
          risk_factors |-> <<"sensibilidade individual", "interações medicamentosas">>]
>>

\* the first class, from group g on, with a name substring in med_lower
RECURSIVE ReactionGroupFrom(_, _)
ReactionGroupFrom(med_lower, g) ==
    IF g > Len(REACTION_GROUPS) THEN GENERIC_REACTIONS
    ELSE IF AnyIn(REACTION_GROUPS[g].names, med_lower) THEN REACTION_GROUPS[g].reactions
    ELSE ReactionGroupFrom(med_lower, g + 1)

_get_common_adverse_reactions(medication) == ReactionGroupFrom(Lower(medication), 1)

\* what one condition adds to patient_profile
ConditionProfile(condition) ==
    LET condition_lower == Lower(condition)
    IN  <<condition_lower>>
        \o (IF In("hipertensão", condition_lower) \/ In("pressão alta", condition_lower)
            THEN <<"hipertensão", "insuficiência cardíaca">> ELSE <<>>)
        \o (IF In("diabetes", condition_lower)
            THEN <<"diabetes", "insuficiência renal">> ELSE <<>>)
        \o (IF In("renal", condition_lower) \/ In("rim", condition_lower)
            THEN <<"insuficiência renal", "insuficiência renal prévia">> ELSE <<>>)
        \o (IF In("cardíaca", condition_lower) \/ In("coração", condition_lower)
            THEN <<"cardiopatia">> ELSE <<>>)

RECURSIVE ConditionsProfile(_)
ConditionsProfile(conditions) ==
    IF conditions = <<>> THEN <<>>
    ELSE ConditionProfile(Head(conditions)) \o ConditionsProfile(Tail(conditions))

RECURSIVE MedsProfile(_)
MedsProfile(current_meds) ==
    IF current_meds = <<>> THEN <<>>
    ELSE (IF AnyIn(<<"varfarina", "warfarin", "anticoagulante">>, Lower(Head(current_meds)))
          THEN <<"uso concomitante de anticoagulantes">> ELSE <<>>)
         \o MedsProfile(Tail(current_meds))

patient_profile(age, pregnant, conditions, current_meds) ==
    (IF age >= 65 THEN <<"idosos", "idade >65 anos", "idade >60 anos">> ELSE <<>>)
    \o (IF pregnant THEN <<"gravidez">> ELSE <<>>)
    \o ConditionsProfile(conditions)
    \o MedsProfile(current_meds)

\* matched_risk_factors is non-empty
ReactionMatches(reaction, profile) ==
    \E p \in DOMAIN profile, r \in DOMAIN reaction.risk_factors :
        LET patient_factor == Lower(profile[p])
            reaction_factor == Lower(reaction.risk_factors[r])
        IN  In(patient_factor, reaction_factor) \/ In(reaction_factor, patient_factor)

RECURSIVE RiskCountLoop_counts_both(_, _, _, _)
RiskCountLoop_counts_both(adverse_reactions, profile, i, counts) ==
    IF i > Len(adverse_reactions) THEN counts
    ELSE LET severity == Lower(adverse_reactions[i].severity)
             critical == IF In("crítica", severity) \/ In("grave", severity) THEN 1 ELSE 0
             high == IF In("moderada", severity) \/ In("alta", severity) THEN 1 ELSE 0
         IN  RiskCountLoop_counts_both(adverse_reactions, profile, i + 1,
                 IF ~ReactionMatches(adverse_reactions[i], profile) THEN counts
                 ELSE [critical_risk_count |-> counts.critical_risk_count + critical,
                       high_risk_count |-> counts.high_risk_count + high])

\* for reaction in adverse_reactions, from entry i on
RECURSIVE RiskCountLoop(_, _, _, _)
RiskCountLoop(adverse_reactions, profile, i, counts) ==
    IF i > Len(adverse_reactions) THEN counts
    ELSE LET severity == Lower(adverse_reactions[i].severity)
         IN  RiskCountLoop(adverse_reactions, profile, i + 1,
                 IF ~ReactionMatches(adverse_reactions[i], profile) THEN counts
                 ELSE IF In("crítica", severity) \/ In("grave", severity)
                 THEN [counts EXCEPT !.critical_risk_count = @ + 1]
                 ELSE IF In("moderada", severity) \/ In("alta", severity)
                 THEN [counts EXCEPT !.high_risk_count = @ + 1]
                 ELSE counts)

_evaluate_patient_risk_factors(adverse_reactions, age, pregnant, conditions, current_meds) ==
    RiskCountLoop(adverse_reactions,
                  patient_profile(age, pregnant, conditions, current_meds), 1,
                  [high_risk_count |-> 0, critical_risk_count |-> 0])

risk_descriptions(risk_level) ==
    CASE risk_level = "critical" ->
           "**RISCO CRÍTICO** - Uso contraindicado ou requer atenção médica IMEDIATA"
      [] risk_level = "high" ->
           "**RISCO ALTO** - Uso requer supervisão médica rigorosa e monitoramento"
      [] risk_level = "medium" ->
           "**RISCO MODERADO** - Usar com cautela e acompanhamento médico"
      [] risk_level = "low" ->
           "**RISCO BAIXO** - Perfil de segurança aceitável com acompanhamento de rotina"
      [] OTHER -> ""

_generate_analysis_notes(medication, risk_level, interaction_count, contraindication_count, age, pregnant) ==
    JoinLines(
        <<"## Análise Clínica - " \o medication \o "\n", risk_descriptions(risk_level), "">>
        \o (IF interaction_count > 0 \/ contraindication_count > 0
            THEN <<"### Alertas Identificados:">>
                 \o (IF contraindication_count > 0
                     THEN <<"- **" \o ToString(contraindication_count)
                            \o "** contraindicação(ões) detectada(s)">>
                     ELSE <<>>)
                 \o (IF interaction_count > 0
                     THEN <<"- **" \o ToString(interaction_count)
                            \o "** interação(ões) medicamentosa(s) encontrada(s)">>
                     ELSE <<>>)
                 \o <<"">>
            ELSE <<>>)
        \o (IF age >= 65 \/ age < 18 \/ pregnant
            THEN <<"### População Especial:">>
                 \o (IF age >= 65
                     THEN <<"- **Paciente idoso**: Requer atenção especial para dosagem">>
                     ELSE <<>>)
                 \o (IF age < 18
                     THEN <<"- **Paciente pediátrico**: Dose deve ser calculada por profissional">>
                     ELSE <<>>)
                 \o (IF pregnant
                     THEN <<"- **GESTANTE**: Avaliar risco/benefício com obstetra">>
                     ELSE <<>>)
                 \o <<"">>
            ELSE <<>>)
        \o <<"---",
              "**IMPORTANTE**: Esta análise é informativa e não substitui consulta médica. "
              \o "Sempre consulte um profissional de saúde antes de iniciar, alterar ou interromper "
              \o "qualquer tratamento.">>)

\* 1. interactions_found, and the cache the lookup leaves behind
InteractionsStage(medication_name, current_meds, cache, file) ==
    LET found == IF current_meds # <<>>
                 THEN find_interactions(medication_name, current_meds, cache, file)
                 ELSE [interactions |-> <<>>, cache |-> cache]
    IN  [interactions_found |->
            [k \in DOMAIN found.interactions |->
                FormatInteraction(found.interactions[k], medication_name)],
         cache |-> found.cache]

ConditionsStage_no_append(triage_data) == triage_data.conditions

\* 2. conditions.append('gravidez'): the list is the caller's
ConditionsStage(triage_data) ==
    IF triage_data.pregnant THEN Append(triage_data.conditions, "gravidez")
    ELSE triage_data.conditions

ContraindicationsStage(medication_name, conditions, allergies) ==
    IF conditions # <<>> \/ allergies # <<>>
    THEN analyze_contraindications(medication_name, conditions, allergies)
    ELSE <<>>

RiskStage_counts_only(interactions_found, contraindications_found, patient_risk_factors) ==
    EscalateRisk("low", patient_risk_factors.critical_risk_count,
                 patient_risk_factors.high_risk_count)

\* 5. and 6. the risk-factor counts, the base risk and its escalation
RiskStage(interactions_found, contraindications_found, patient_risk_factors) ==
    EscalateRisk(calculate_overall_risk(interactions_found, contraindications_found),
                 patient_risk_factors.critical_risk_count,
                 patient_risk_factors.high_risk_count)

AnalysisResult_confidence_by_risk(medication_name, age, pregnant, interactions_found, contraindications_found, dosage_adjustments, adverse_reactions, risk_level) ==
    [risk_level |-> risk_level,
     contraindications |-> contraindications_found,
     interactions |-> interactions_found,
     dosage_adjustments |-> dosage_adjustments,
     adverse_reactions |-> adverse_reactions,
     evidence_links |-> <<>>,
     model_used |-> "clinical_rules_v1 + drug_interactions_db_191k",
     confidence_score |->
         IF risk_level # "low" THEN 85 ELSE 65,
     analysis_notes |->
         _generate_analysis_notes(medication_name, risk_level, Len(interactions_found),
                                  Len(contraindications_found), age, pregnant),
     status |-> "completed"]

\* 7., 8. and the dict returned
AnalysisResult(medication_name, age, pregnant, interactions_found, contraindications_found, dosage_adjustments, adverse_reactions, risk_level) ==
    [risk_level |-> risk_level,
     contraindications |-> contraindications_found,
     interactions |-> interactions_found,
     dosage_adjustments |-> dosage_adjustments,
     adverse_reactions |-> adverse_reactions,
     evidence_links |-> <<>>,
     model_used |-> "clinical_rules_v1 + drug_interactions_db_191k",
     confidence_score |->
         IF interactions_found # <<>> \/ contraindications_found # <<>> THEN 85 ELSE 65,
     analysis_notes |->
         _generate_analysis_notes(medication_name, risk_level, Len(interactions_found),
                                  Len(contraindications_found), age, pregnant),
     status |-> "completed"]

\* triage_data['age'] = None, written as an age no patient has
AgeNone == 0 - 1

\* what `age >= 65` raises when age is None
AgeTypeError == "'>=' not supported between instances of 'NoneType' and 'int'"

FallbackResult_full_confidence(e) ==
    [risk_level |-> "medium",
     contraindications |-> <<>>,
     interactions |-> <<>>,
     dosage_adjustments |-> <<>>,
     adverse_reactions |-> <<>>,
     evidence_links |-> <<>>,
     model_used |-> "clinical_rules_v1 + drug_interactions_db_191k",
     confidence_score |-> 85,
     analysis_notes |-> "",
     status |-> "completed"]

\* the dict returned by the except clause, e the text of the exception
FallbackResult(e) ==
    [risk_level |-> "medium",
     contraindications |-> <<>>,
     interactions |-> <<>>,
     dosage_adjustments |-> <<>>,
     adverse_reactions |-> <<>>,
     evidence_links |-> <<>>,
     model_used |-> "clinical_rules_v1_fallback",
     confidence_score |-> 30,
     analysis_notes |-> "Erro na análise: " \o e \o ". Consulte um profissional de saúde.",
     status |-> "error_fallback"]

\* a request for every combination of the given inputs, on every given dataset
InitAnalysis(datasets, drugs, medLists, ages, conditionLists, allergyLists) ==
    /\ db_file \in datasets
    /\ interactions_cache = NoneCache
    /\ \E d \in drugs, ms \in medLists, a \in ages, pg \in BOOLEAN,
          cs \in conditionLists, as \in allergyLists :
           call = [op |-> "analyze",
                   triage_data |-> [age |-> a, pregnant |-> pg, meds_in_use |-> ms,
                                    conditions |-> cs, allergies |-> as],
                   vision_data |-> [drug_name |-> d]]
    /\ ret = "none"
    /\ pc = "call"

\* the value returned for a request whose stages 1 and 2 gave found and
\* conditions: a None age raises in stage 3 (_check_dosage_adjustments) and
\* the except clause returns the fallback; otherwise each later step's value
\* is bound once and handed on
Returns(result, t, medication_name, found, conditions) ==
    IF t.age = AgeNone
    THEN result = FallbackResult(AgeTypeError)
    ELSE \E adverse_reactions \in {_get_common_adverse_reactions(medication_name)},
            contraindications_found \in
                {ContraindicationsStage(medication_name, conditions, t.allergies)} :
         \E patient_risk_factors \in
                {_evaluate_patient_risk_factors(adverse_reactions, t.age, t.pregnant,
                                                conditions, t.meds_in_use)} :
         \E risk_level \in {RiskStage(found.interactions_found, contraindications_found,
                                      patient_risk_factors)} :
             result = AnalysisResult(medication_name, t.age, t.pregnant,
                                     found.interactions_found, contraindications_found,
                                     _check_dosage_adjustments(medication_name, t.age,
                                                               conditions),
                                     adverse_reactions, risk_level)

\* one request analysed
Analyze ==
    /\ pc = "call"
    /\ call.op = "analyze"
    /\ LET t == call.triage_data
           medication_name == call.vision_data.drug_name
       IN  \E found \in {InteractionsStage(medication_name, t.meds_in_use,
                                            interactions_cache, db_file)},
              conditions \in {ConditionsStage(t)} :
               /\ Returns(ret', t, medication_name, found, conditions)
               /\ interactions_cache' = found.cache
               /\ call' = [call EXCEPT !.triage_data.conditions = conditions]
    /\ pc' = "done"
    /\ UNCHANGED db_file

(***************************************************************************)
(* Interaction findings of the analysis                                    *)
(***************************************************************************)
InitAgentInteractions ==
    InitAnalysis(Datasets, QueryDrugs, SeqsUpTo(OtherInputs, MaxOthers),
                 {30}, {<<>>}, {<<>>})

NextAgentInteractions == Analyze

SpecAgentInteractions == InitAgentInteractions /\ [][NextAgentInteractions]_vars

AnalyzeDone == call.op = "analyze" /\ pc = "done"

\* C10: in every interaction finding interactingDrug is the side of the
\* stored pair that is not the queried drug, also when the drug is queried
\* under a name the synonym table maps to the stored one; for a stored pair of
\* two distinct drugs interactingDrug is never the queried drug itself.
C10_InteractingDrugIsOtherSide ==
    AnalyzeDone =>
        LET medication_name == call.vision_data.drug_name
            queried == _normalize_drug_name(medication_name)
            raw == find_interactions(medication_name, call.triage_data.meds_in_use,
                                     interactions_cache, db_file).interactions
        IN  /\ Len(ret.interactions) = Len(raw)
            /\ \A k \in DOMAIN raw :
                   _normalize_drug_name(raw[k].drug1) # _normalize_drug_name(raw[k].drug2)
                   => /\ _normalize_drug_name(ret.interactions[k].interacting_drug) # queried
                      /\ ret.interactions[k].interacting_drug
                           = IF _normalize_drug_name(raw[k].drug1) = queried
                             THEN raw[k].drug2
                             ELSE raw[k].drug1

(***************************************************************************)
(* The analysis over patient records: ages (None among them), conditions,  *)
(* allergies and medications in use                                        *)
(***************************************************************************)
PatientDrugs == {"Metformina", "Warfarin", "Ibuprofeno"}
PatientAges == {10, 30, 70, AgeNone}
PatientConditions == {"insuficiência renal", "Diabetes"}
PatientAllergies == {<<>>, <<"Penicillin">>, <<"Varfarina">>}
PatientMeds == {<<>>, <<"Aspirin">>}
PatientDatasets ==
    {NoFile, [exists |-> TRUE, rows |-> <<<<"Warfarin", "Aspirin", "increased risk of bleeding">>>>]}

InitAgentPatient ==
    InitAnalysis(PatientDatasets, PatientDrugs, PatientMeds, PatientAges,
                 SeqsUpTo(PatientConditions, MaxConditions), PatientAllergies)

NextAgentPatient == Analyze

SpecAgentPatient == InitAgentPatient /\ [][NextAgentPatient]_vars

\* a Python list
IsList(x) == DOMAIN x = 1..Len(x)

\* C12: the analysis always returns a result, with a risk level on the scale
\* and list-valued findings; when an exception was raised inside it the
\* result is the fallback: its confidence score is below both normal-path
\* values and its notes say that an error occurred.
C12_FallbackOnException ==
    AnalyzeDone =>
        /\ ret.risk_level \in Levels
        /\ IsList(ret.contraindications)
        /\ IsList(ret.interactions)
        /\ IsList(ret.dosage_adjustments)
        /\ IsList(ret.adverse_reactions)
        /\ call.triage_data.age # AgeNone => ret.confidence_score \in {65, 85}
        /\ call.triage_data.age = AgeNone =>
               /\ ret.confidence_score < 65
               /\ ret.confidence_score < 85
               /\ In("Erro na análise", ret.analysis_notes)
               /\ ret.status = "error_fallback"

\* a request with age None, a medication in use and an allergy has returned
\* the fallback
C12_Witness ==
    /\ AnalyzeDone
    /\ call.triage_data.age = AgeNone
    /\ call.triage_data.meds_in_use = <<"Aspirin">>
    /\ call.triage_data.allergies = <<"Penicillin">>
    /\ ret.status = "error_fallback"
    /\ ret.risk_level = "medium"

\* the patient of the scenario: 70 years old, renal insufficiency, no
\* allergies, no medication in use, analysed for Metformina
RenalPatient70 ==
    /\ AnalyzeDone
    /\ call.vision_data.drug_name = "Metformina"
    /\ call.triage_data.age = 70
    /\ call.triage_data.allergies = <<>>
    /\ call.triage_data.meds_in_use = <<>>
    /\ call.triage_data.conditions =
           IF call.triage_data.pregnant
           THEN <<"insuficiência renal", "gravidez">>
           ELSE <<"insuficiência renal">>

\* C20: for the patient aged 70 with conditions ["insuficiência renal"]
\* analysed for "Metformina", the dosage adjustments include the age-based
\* dose reduction and the renal-impairment entry, and the final risk is at
\* least medium.
C20_ElderlyRenalMetformin ==
    RenalPatient70 =>
        /\ \E i \in DOMAIN ret.dosage_adjustments :
               ret.dosage_adjustments[i].adjustment_type = "dose_reduction"
        /\ \E i \in DOMAIN ret.dosage_adjustments :
               ret.dosage_adjustments[i].adjustment_type = "renal_impairment"
        /\ Rank[ret.risk_level] >= Rank["medium"]

C20_Witness ==
    /\ RenalPatient70
    /\ ~call.triage_data.pregnant
    /\ Len(ret.dosage_adjustments) = 2
    /\ ret.risk_level \in {"medium", "high", "critical"}

(***************************************************************************)
(* The same request analysed twice in succession                           *)
(***************************************************************************)
\* the second call: the same triage_data and vision_data objects, as the
\* first call left them, on the same service
AnalyzeAgain ==
    /\ pc = "done"
    /\ call.op = "analyze"
    /\ LET t == call.triage_data
           medication_name == call.vision_data.drug_name
       IN  \E found \in {InteractionsStage(medication_name, t.meds_in_use,
                                            interactions_cache, db_file)},
              conditions \in {ConditionsStage(t)} :
               /\ Returns(ret', t, medication_name, found, conditions)
               /\ interactions_cache' = found.cache
               /\ call' = [op |-> "analyze_again",
                           triage_data |-> [t EXCEPT !.conditions = conditions],
                           vision_data |-> call.vision_data,
                           first |-> ret]
    /\ pc' = "done"
    /\ UNCHANGED db_file

NextAgentTwice == Analyze \/ AnalyzeAgain

SpecAgentTwice == InitAgentPatient /\ [][NextAgentTwice]_vars

\* C13: two analyses in succession of the same patient record and drug on the
\* same index give equal results: the same risk level and the same
\* contraindication and interaction findings, in number and order.
C13_CallsIndependent ==
    (call.op = "analyze_again" /\ pc = "done") =>
        /\ ret.risk_level = call.first.risk_level
        /\ ret.contraindications = call.first.contraindications
        /\ ret.interactions = call.first.interactions

(***************************************************************************)
(* Concurrent first access: threads calling get_interaction_service() and  *)
(* then reading interactions_db, interleaved between statements.           *)
(* In this specification                                                   *)
(*   interactions_cache  is the module global _interaction_service (0 for  *)
(*                       None, else the number of the instance) together   *)
(*                       with the _interactions_cache of every             *)
(*                       DrugInteractionService instance created;          *)
(*   db_file             also counts how often the file was opened;        *)
(*   call[t]             holds thread t's locals: its service instance and *)
(*                       the row its `for row in reader` loop is at;       *)
(*   ret[t]              is what interactions_db returned to t;            *)
(*   pc[t]               is the statement t is at.                         *)
(***************************************************************************)
Threads == {"t1", "t2"}

ConcurrentDatasets ==
    {[exists |-> FALSE, rows |-> <<>>, opens |-> 0],
     [exists |-> TRUE, rows |-> <<<<"Warfarin", "Aspirin", "increased risk of bleeding">>>>,
      opens |-> 0],
     [exists |-> TRUE,
      rows |-> <<<<"Warfarin", "Aspirin", "increased risk of bleeding">>,
                 <<"Warfarin", "Ibuprofen">>>>,
      opens |-> 0]}

InitConcurrent ==
    /\ db_file \in ConcurrentDatasets
    /\ interactions_cache = [_interaction_service |-> 0, instances |-> <<>>]
    /\ call = [t \in Threads |-> [service |-> 0, row |-> 0]]
    /\ ret = [t \in Threads |-> "none"]
    /\ pc = [t \in Threads |-> "get_check"]

\* if _interaction_service is None:
GetCheck(t) ==
    /\ pc[t] = "get_check"
    /\ pc' = [pc EXCEPT ![t] = IF interactions_cache._interaction_service = 0
                               THEN "get_create" ELSE "get_return"]
    /\ UNCHANGED <<db_file, interactions_cache, call, ret>>

\* _interaction_service = DrugInteractionService()
GetCreate(t) ==
    /\ pc[t] = "get_create"
    /\ interactions_cache' =
           [_interaction_service |-> Len(interactions_cache.instances) + 1,
            instances |-> Append(interactions_cache.instances, NoneCache)]
    /\ pc' = [pc EXCEPT ![t] = "get_return"]
    /\ UNCHANGED <<db_file, call, ret>>

\* return _interaction_service
GetReturn(t) ==
    /\ pc[t] = "get_return"
    /\ call' = [call EXCEPT ![t].service = interactions_cache._interaction_service]
    /\ pc' = [pc EXCEPT ![t] = "db_check"]
    /\ UNCHANGED <<db_file, interactions_cache, ret>>

\* interactions_db: if self._interactions_cache is None:
DbCheck(t) ==
    /\ pc[t] = "db_check"
    /\ pc' = [pc EXCEPT ![t] = IF interactions_cache.instances[call[t].service].none
                               THEN "load_begin" ELSE "db_return"]
    /\ UNCHANGED <<db_file, interactions_cache, call, ret>>

\* _load_interactions: self._interactions_cache = {} and open(self.db_path)
LoadBegin(t) ==
    /\ pc[t] = "load_begin"
    /\ interactions_cache' =
           [interactions_cache EXCEPT !.instances[call[t].service] = DictCache(<<>>)]
    /\ IF db_file.exists
       THEN /\ db_file' = [db_file EXCEPT !.opens = @ + 1]
            /\ call' = [call EXCEPT ![t].row = 1]
            /\ pc' = [pc EXCEPT ![t] = "load_row"]
       ELSE /\ pc' = [pc EXCEPT ![t] = "load_except"]
            /\ UNCHANGED <<db_file, call>>
    /\ UNCHANGED ret

\* one turn of `for row in reader`: the row is inserted into the dict the
\* attribute holds at that moment
LoadRow(t) ==
    /\ pc[t] = "load_row"
    /\ LET i == call[t].row
           s == call[t].service
       IN  IF i > Len(db_file.rows)
           THEN /\ pc' = [pc EXCEPT ![t] = "db_return"]
                /\ UNCHANGED <<interactions_cache, call>>
           ELSE IF RowRaises(db_file.rows[i])
           THEN /\ pc' = [pc EXCEPT ![t] = "load_except"]
                /\ UNCHANGED <<interactions_cache, call>>
           ELSE /\ interactions_cache' =
                       [interactions_cache EXCEPT !.instances[s].dict =
                            RowLoop(<<db_file.rows[i]>>, 1, @).dict]
                /\ call' = [call EXCEPT ![t].row = i + 1]
                /\ pc' = pc
    /\ UNCHANGED <<db_file, ret>>

\* except Exception: self._interactions_cache = {}
LoadExcept(t) ==
    /\ pc[t] = "load_except"
    /\ interactions_cache' =
           [interactions_cache EXCEPT !.instances[call[t].service] = DictCache(<<>>)]
    /\ pc' = [pc EXCEPT ![t] = "db_return"]
    /\ UNCHANGED <<db_file, call, ret>>

\* return self._interactions_cache
DbReturn(t) ==
    /\ pc[t] = "db_return"
    /\ ret' = [ret EXCEPT ![t] = interactions_cache.instances[call[t].service]]
    /\ pc' = [pc EXCEPT ![t] = "done"]
    /\ UNCHANGED <<db_file, interactions_cache, call>>

NextConcurrent ==
    \E t \in Threads :
        \/ GetCheck(t)
        \/ GetCreate(t)
        \/ GetReturn(t)
        \/ DbCheck(t)
        \/ LoadBegin(t)
        \/ LoadRow(t)
        \/ LoadExcept(t)
        \/ DbReturn(t)

SpecConcurrent == InitConcurrent /\ [][NextConcurrent]_vars

\* C14: when several callers reach the uninitialized service and index
\* concurrently, at most one service instance is created, at most one build
\* of the index is started and the dataset is not parsed a second time.
C14_SingleInitialization ==
    /\ Len(interactions_cache.instances) <= 1
    /\ db_file.opens <= 1
    /\ Cardinality({t \in Threads : pc[t] \in {"load_begin", "load_row", "load_except"}}) <= 1

(***************************************************************************)
(* _normalize_drug_name applied to names in mixed case, padded with        *)
(* whitespace, in and out of the synonym table                             *)
(***************************************************************************)
Pads == {"", " ", "\t\n"}

BaseNames ==
    {"Aspirina", "ASPIRIN", "Tylenol", "aspirin 500", "asp", "", "Losartan Potássico",
     "warfarin", "Diazepam", "Xyz", "ÁCIDO ACETILSALICÍLICO", "paracetamol tylenol",
     "Acetaminophen", "Glifage XR"}

NameInputs == {l \o b \o r : l \in Pads, b \in BaseNames, r \in Pads}

InitNormalize ==
    /\ db_file = NoFile
    /\ interactions_cache = NoneCache
    /\ \E name \in NameInputs : call = [op |-> "_normalize_drug_name", name |-> name]
    /\ ret = "none"
    /\ pc = "call"

NormalizeDrugName ==
    /\ pc = "call"
    /\ call.op = "_normalize_drug_name"
    /\ ret' = _normalize_drug_name(call.name)
    /\ pc' = "done"
    /\ UNCHANGED <<db_file, interactions_cache, call>>

NextNormalize == NormalizeDrugName

SpecNormalize == InitNormalize /\ [][NextNormalize]_vars

NormalizeDone == call.op = "_normalize_drug_name" /\ pc = "done"

\* C16: normalize returns the table's canonical name when the trimmed,
\* lower-cased input equals a table key and the trimmed, lower-cased input
\* itself otherwise: no partial match, and a string also for the empty input.
C16_NormalizeExactLookup ==
    NormalizeDone =>
        LET key == Lower(Strip(call.name))
        IN  /\ key \in DOMAIN DRUG_SYNONYMS => ret = DRUG_SYNONYMS[key]
            /\ key \notin DOMAIN DRUG_SYNONYMS => ret = key
            /\ key = "aspirin 500" => ret = "aspirin 500"
            /\ key = "tylenol" => ret = "acetaminophen"
            /\ key = "asp" => ret = "asp"
            /\ call.name \in {"", " ", "\t\n"} => ret = ""

\* a padded name that contains a table key without being one
C16_Witness ==
    /\ NormalizeDone
    /\ call.name = " aspirin 500\t\n"
    /\ ret = "aspirin 500"

\* C17: normalize(normalize(x)) = normalize(x) for every input x: no canonical
\* name of the table is a key mapped to another name, and every canonical
\* name is trimmed and lower-case.
C17_NormalizeIdempotent ==
    /\ NormalizeDone => _normalize_drug_name(ret) = ret
    /\ \A k \in DOMAIN DRUG_SYNONYMS :
           LET canonical == DRUG_SYNONYMS[k]
           IN  /\ Strip(Lower(canonical)) = canonical
               /\ canonical \in DOMAIN DRUG_SYNONYMS => DRUG_SYNONYMS[canonical] = canonical

\* a brand name mapped to its canonical name, and a canonical name that is
\* its own key
C17_Witness ==
    /\ NormalizeDone
    /\ call.name \in {" Tylenol ", "Diazepam"}
    /\ ret \in {"acetaminophen", "diazepam"}
    /\ _normalize_drug_name(ret) = ret

(***************************************************************************)
(* Category classifier applied to free-text descriptions                   *)
(***************************************************************************)
CategoryFragments ==
    {"Cardiac arrest. ", "LIVER damage. ", "Renal failure. ", "CNS depression. ",
     "Photosensitizing agent. ", "inhibits CYP3A4. ", "risk of Bleeding. ",
     "no known effect. ", "Hepatotoxic and Nephrotoxic. "}

CategoryDescriptions == {Concat(fs) : fs \in SeqsUpTo(CategoryFragments, MaxFragments)}

InitCategory ==
    /\ db_file = NoFile
    /\ interactions_cache = NoneCache
    /\ \E d \in CategoryDescriptions : call = [op |-> "_classify_category", description |-> d]
    /\ ret = "none"
    /\ pc = "call"

ClassifyCategory ==
    /\ pc = "call"
    /\ call.op = "_classify_category"
    /\ ret' = _classify_category(call.description)
    /\ pc' = "done"
    /\ UNCHANGED <<db_file, interactions_cache, call>>

NextCategory == ClassifyCategory

SpecCategory == InitCategory /\ [][NextCategory]_vars

\* the keyword rules in the order the claim gives them, with the labels the
\* code returns for them
CategoryRules ==
    << [keywords |-> {"cardiotoxic", "cardiac"}, label |-> "Cardiovascular"],
       [keywords |-> {"hepatotoxic", "liver"}, label |-> "Hepática"],
       [keywords |-> {"nephrotoxic", "renal", "kidney"}, label |-> "Renal"],
       [keywords |-> {"neurotoxic", "cns", "sedation"}, label |-> "Neurológica"],
       [keywords |-> {"photosensitiz"}, label |-> "Fotossensibilidade"],
       [keywords |-> {"metabolism", "cyp"}, label |-> "Farmacocinética"],
       [keywords |-> {"bleeding", "anticoagulant"}, label |-> "Coagulação"] >>

\* the rules with a keyword in the lower-cased description
MatchingRules ==
    {r \in DOMAIN CategoryRules :
        \E k \in CategoryRules[r].keywords : In(k, Lower(call.description))}

\* C18: the category is the label of the first rule, in the order
\* Cardiovascular, Hepatic, Renal, Neurological, Photosensitivity,
\* Pharmacokinetic, Coagulation, with a keyword in the lower-cased
\* description, and Pharmacological when no rule matches.
C18_CategoryFirstMatch ==
    (call.op = "_classify_category" /\ pc = "done") =>
        LET M == MatchingRules
        IN  /\ M = {} => ret = "Farmacológica"
            /\ M # {} => ret = CategoryRules[CHOOSE r \in M : \A q \in M : r <= q].label

\* a description with a Coagulation keyword before a Cardiovascular one
C18_Witness ==
    /\ call.op = "_classify_category"
    /\ pc = "done"
    /\ call.description = "risk of Bleeding. Cardiac arrest. "
    /\ MatchingRules = {1, 7}
    /\ ret = "Cardiovascular"

\* C19: with the record for (warfarin, aspirin) stored with the description
\* "increased risk of bleeding", analysing "Warfarin" with ["Aspirin"] in use
\* yields exactly one interaction finding, of severity high, category
\* Coagulation, with the 'extreme caution' recommendation.
C19_WarfarinAspirinHigh ==
    (/\ AnalyzeDone
     /\ call.vision_data.drug_name = "Warfarin"
     /\ call.triage_data.meds_in_use = <<"Aspirin">>
     /\ "warfarin|acetylsalicylic acid" \in DOMAIN interactions_cache.dict
     /\ interactions_cache.dict["warfarin|acetylsalicylic acid"].description
            = "increased risk of bleeding")
    => /\ Len(ret.interactions) = 1
       /\ ret.interactions[1].severity = "high"
       /\ ret.interactions[1].mechanism = "Coagulação"
       /\ In("EXTREMA CAUTELA", ret.interactions[1].recommendation)

(***************************************************************************)
(* Pregnancy, confidence, allergy-driven risk and the caller's record      *)
(***************************************************************************)
\* the analysis completed without taking the except clause
CompletedNormally == AnalyzeDone /\ ret.status = "completed"

\* the condition findings that name pregnancy
PregnancyFindings ==
    {i \in DOMAIN ret.contraindications :
        ret.contraindications[i].type = "Contraindicação por gravidez"}

\* C21: with the pregnant flag set, pregnancy is added to the conditions
\* before the contraindication check, so a drug on the pregnancy list
\* (warfarin) gets a condition finding of severity high, also with no
\* conditions and no allergies supplied; with the flag clear and no pregnancy
\* condition supplied there is no such finding.
C21_PregnancyFoldedIntoConditions ==
    CompletedNormally =>
        /\ (call.triage_data.pregnant /\ call.vision_data.drug_name = "Warfarin") =>
               /\ PregnancyFindings # {}
               /\ \A i \in PregnancyFindings : ret.contraindications[i].severity = "high"
        /\ ~call.triage_data.pregnant => PregnancyFindings = {}

\* pregnant, nothing else supplied, analysed for Warfarin
C21_Witness ==
    /\ CompletedNormally
    /\ call.triage_data.pregnant
    /\ call.vision_data.drug_name = "Warfarin"
    /\ call.triage_data.conditions = <<"gravidez">>
    /\ call.triage_data.allergies = <<>>
    /\ Len(ret.contraindications) = 1
    /\ ret.contraindications[1].severity = "high"

\* C23: in a normally completed analysis the confidence score is 0.85 exactly
\* when an interaction or contraindication finding is present and 0.65
\* exactly when both lists are empty, whatever the risk level.
C23_ConfidenceTwoValued ==
    CompletedNormally =>
        LET found == ret.interactions # <<>> \/ ret.contraindications # <<>>
        IN  /\ ret.confidence_score \in {65, 85}
            /\ ret.confidence_score = 85 <=> found
            /\ ret.confidence_score = 65 <=> ~found

\* no finding at all, yet the risk level was raised by the risk factors
C23_Witness ==
    /\ CompletedNormally
    /\ ret.interactions = <<>>
    /\ ret.contraindications = <<>>
    /\ ret.risk_level # "low"
    /\ ret.confidence_score = 65

\* C25: in a normally completed analysis a contraindication finding of
\* severity critical makes the final risk level critical, whatever the
\* interactions, age, conditions and risk-factor counts.
C25_CriticalContraindicationStays ==
    CompletedNormally =>
        ((\E i \in DOMAIN ret.contraindications : ret.contraindications[i].severity = "critical")
            => ret.risk_level = "critical")

\* a known allergy to the drug, under its Portuguese name
C25_Witness ==
    /\ CompletedNormally
    /\ call.vision_data.drug_name = "Warfarin"
    /\ call.triage_data.allergies = <<"Varfarina">>
    /\ call.triage_data.age = 30
    /\ ret.contraindications[1].type = "Alergia Conhecida"
    /\ ret.risk_level = "critical"

\* C26: the analysis leaves the caller's patient record unchanged: the
\* conditions, allergies and meds_in_use lists of triage_data hold after the
\* call what they held before it.
C26_RecordUnchanged ==
    [][(pc = "call" /\ call.op = "analyze") => call'.triage_data = call.triage_data]_vars

\* C22: the adverse-reaction profile is chosen by the normalized (canonical)
\* drug name, first matching group winning: a drug given under a brand name
\* gets the profile of its canonical name, and a drug matching no group gets
\* exactly the generic fallback entry.
C22_ProfileByCanonicalName ==
    AnalyzeDone =>
        LET canonical == _normalize_drug_name(call.vision_data.drug_name)
        IN  /\ ret.adverse_reactions = _get_common_adverse_reactions(canonical)
            /\ (\A g \in DOMAIN REACTION_GROUPS : ~AnyIn(REACTION_GROUPS[g].names, canonical))
                   => ret.adverse_reactions = GENERIC_REACTIONS

\* C27: a known-allergy finding is produced only for an allergy entry that is
\* non-empty after trimming: for a non-empty drug name, an allergies list of
\* blank strings only yields no allergy finding.
C27_BlankAllergiesIgnored ==
    (/\ ContraDone
     /\ Strip(call.drug_name) # ""
     /\ \A i \in DOMAIN call.allergies : Strip(call.allergies[i]) = "")
    => \A p \in DOMAIN ret : ret[p].type # "Alergia Conhecida"

(***************************************************************************)
(* AIService._calculate_overall_risk over the RiskLevel enum               *)
(***************************************************************************)
\* RiskLevel: LOW, MEDIUM, HIGH, CRITICAL by their values, in rising order
RiskLevelRank == ("baixo" :> 0) @@ ("medio" :> 1) @@ ("alto" :> 2) @@ ("critico" :> 3)

_calculate_overall_risk(analysis) ==
    LET RECURSIVE Contraindications(_, _)
        \* for contraind in analysis["contraindications"], from entry i on:
        \* the level returned from inside the loop, or max_risk after it
        Contraindications(i, max_risk) ==
            IF i > Len(analysis.contraindications)
            THEN [returned |-> FALSE, max_risk |-> max_risk]
            ELSE LET level == analysis.contraindications[i].risk_level
                 IN  IF level = "critico" THEN [returned |-> TRUE, max_risk |-> "critico"]
                     ELSE IF level = "alto" THEN Contraindications(i + 1, "alto")
                     ELSE IF level = "medio" /\ max_risk = "baixo"
                     THEN Contraindications(i + 1, "medio")
                     ELSE Contraindications(i + 1, max_risk)
        RECURSIVE Interactions(_, _)
        \* for interaction in analysis["interactions"], from entry i on
        Interactions(i, max_risk) ==
            IF i > Len(analysis.interactions) THEN max_risk
            ELSE LET level == analysis.interactions[i].risk_level
                 IN  IF level = "critico" THEN "critico"
                     ELSE IF level = "alto" /\ max_risk # "critico"
                     THEN Interactions(i + 1, "alto")
                     ELSE Interactions(i + 1, max_risk)
        first == Contraindications(1, "baixo")
    IN  IF first.returned THEN first.max_risk ELSE Interactions(1, first.max_risk)

InitAIRisk ==
    /\ db_file = NoFile
    /\ interactions_cache = NoneCache
    /\ \E contraindications \in SeqsUpTo([risk_level : DOMAIN RiskLevelRank], MaxFindings),
          interactions \in SeqsUpTo([risk_level : DOMAIN RiskLevelRank], MaxFindings) :
           call = [op |-> "_calculate_overall_risk",
                   analysis |-> [contraindications |-> contraindications,
                                 interactions |-> interactions]]
    /\ ret = "none"
    /\ pc = "call"

AICalculateOverallRisk ==
    /\ pc = "call"
    /\ call.op = "_calculate_overall_risk"
    /\ ret' = _calculate_overall_risk(call.analysis)
    /\ pc' = "done"
    /\ UNCHANGED <<db_file, interactions_cache, call>>

NextAIRisk == AICalculateOverallRisk

SpecAIRisk == InitAIRisk /\ [][NextAIRisk]_vars

\* C24: AIService._calculate_overall_risk returns the highest level, on the
\* scale LOW < MEDIUM < HIGH < CRITICAL, among the contraindications and the
\* interactions together, and LOW when neither list holds anything above LOW.
C24_AIRiskIsMaximum ==
    (call.op = "_calculate_overall_risk" /\ pc = "done") =>
        LET levels == {call.analysis.contraindications[i].risk_level :
                           i \in DOMAIN call.analysis.contraindications}
                      \cup {call.analysis.interactions[i].risk_level :
                                i \in DOMAIN call.analysis.interactions}
                      \cup {"baixo"}
        IN  /\ ret \in levels
            /\ \A l \in levels : RiskLevelRank[l] <= RiskLevelRank[ret]

(***************************************************************************)
(* _evaluate_patient_risk_factors applied to each drug's adverse-reaction  *)
(* profile and to patient profiles, blank conditions among them            *)
(***************************************************************************)
RiskFactorConditions == {"", " ", "Hipertensão", "diabetes"}

InitRiskFactors ==
    /\ db_file = NoFile
    /\ interactions_cache = NoneCache
    /\ \E medication \in {REACTION_GROUPS[g].names[1] : g \in DOMAIN REACTION_GROUPS}
                             \cup {"Dipirona"},
          age \in {30, 70}, pregnant \in BOOLEAN,
          conditions \in SeqsUpTo(RiskFactorConditions, MaxConditions),
          current_meds \in {<<>>, <<"Warfarin">>} :
           call = [op |-> "_evaluate_patient_risk_factors", medication |-> medication,
                   age |-> age, pregnant |-> pregnant, conditions |-> conditions,
                   current_meds |-> current_meds]
    /\ ret = "none"
    /\ pc = "call"

EvaluatePatientRiskFactors ==
    /\ pc = "call"
    /\ call.op = "_evaluate_patient_risk_factors"
    /\ ret' = _evaluate_patient_risk_factors(_get_common_adverse_reactions(call.medication),
                                             call.age, call.pregnant, call.conditions,
                                             call.current_meds)
    /\ pc' = "done"
    /\ UNCHANGED <<db_file, interactions_cache, call>>

NextRiskFactors == EvaluatePatientRiskFactors

SpecRiskFactors == InitRiskFactors /\ [][NextRiskFactors]_vars

RiskFactorsDone == call.op = "_evaluate_patient_risk_factors" /\ pc = "done"

\* C28: blank entries of the conditions list never count as risk-factor
\* matches: for a patient under 65, not pregnant, with no current medication
\* and only blank condition strings, both counts are 0 for every drug profile.
C28_BlankConditionsIgnored ==
    (/\ RiskFactorsDone
     /\ call.age < 65
     /\ ~call.pregnant
     /\ call.current_meds = <<>>
     /\ \A i \in DOMAIN call.conditions : Strip(call.conditions[i]) = "")
    => (ret.critical_risk_count = 0 /\ ret.high_risk_count = 0)

\* C30: each adverse-reaction entry adds at most 1 to the two counts together,
\* however many risk factors or profile strings match; an entry whose
\* severity text qualifies for both classes counts as critical only; so the
\* sum of the counts never exceeds the number of entries of the profile.
C30_OneCountPerReaction ==
    RiskFactorsDone =>
        LET adverse_reactions == _get_common_adverse_reactions(call.medication)
            profile == patient_profile(call.age, call.pregnant, call.conditions,
                                       call.current_meds)
            matched == {i \in DOMAIN adverse_reactions :
                           ReactionMatches(adverse_reactions[i], profile)}
            IsCritical(i) == \/ In("crítica", Lower(adverse_reactions[i].severity))
                             \/ In("grave", Lower(adverse_reactions[i].severity))
            IsHigh(i) == \/ In("moderada", Lower(adverse_reactions[i].severity))
                         \/ In("alta", Lower(adverse_reactions[i].severity))
        IN  /\ ret.critical_risk_count = Cardinality({i \in matched : IsCritical(i)})
            /\ ret.high_risk_count = Cardinality({i \in matched : ~IsCritical(i) /\ IsHigh(i)})
            /\ ret.critical_risk_count + ret.high_risk_count <= Cardinality(matched)
            /\ ret.critical_risk_count + ret.high_risk_count <= Len(adverse_reactions)

\* the anti-inflammatory profile ('Moderada a grave', 'Moderada', 'Moderada')
\* for an elderly hypertensive patient on warfarin: every entry matches, the
\* first through more than one risk factor, and counts once
C30_Witness ==
    /\ RiskFactorsDone
    /\ call.medication = "ibuprofen"
    /\ call.age = 70
    /\ call.conditions = <<"Hipertensão", "diabetes">>
    /\ call.current_meds = <<"Warfarin">>
    /\ ret.critical_risk_count = 1
    /\ ret.high_risk_count = 2

====
